---- MODULE Spec2Model ----
(***************************************************************************)
(* Test discovery tree (addChild / prune / extractTests /                  *)
(* updateTestsInFile / removeTestsForFile), the run queue and the mocha    *)
(* output scanner of the selfhost test provider.                           *)
(***************************************************************************)
EXTENDS Integers, Sequences, FiniteSets, TLC

(***************************************************************************)
(* Bounds of the model.                                                    *)
(***************************************************************************)
\* calls (test/suite/other) in one source text read by updateTestsInFile
MaxCalls == 2
\* calls in the source text handed to a single extraction into an empty root
MaxExtractCalls == 3
\* discovery passes and delete-prunes (values taken by the generation counter)
MaxGen == 3
\* discovery passes among them
MaxPasses == 2
\* nodes allocated when addChild is driven directly
MaxNodes == 4

Files == {"F", "G"}
Names == {"a", "b"}

(***************************************************************************)
(* Source texts.  A source is the pre-order list of the call expressions   *)
(* `fn(name, function)` of the file: a call token opens a call, the End    *)
(* token closes the function body of the innermost open call.  Positions   *)
(* are token indexes.  "describe" stands for every call that               *)
(* extractTestFromNode does not recognise (wrapping expressions).          *)
(***************************************************************************)
suiteNames == {"suite", "flakySuite"}
End == [fn |-> "end", name |-> ""]
Calls(fns) == {[fn |-> f, name |-> n] : f \in fns, n \in Names}
\* the calls of the texts re-read by discovery passes
Opens == Calls({"test", "suite"})
\* the calls of the text of a single extraction
ExtractOpens == Calls({"test"} \cup suiteNames) \cup {[fn |-> "describe", name |-> "a"]}

RECURSIVE SrcWith(_, _)
SrcWith(opens, n) ==
  IF n = 0 THEN {<< >>}
  ELSE UNION {UNION {{<<o>> \o inner \o <<End>> \o rest :
                        o \in opens, inner \in SrcWith(opens, k),
                        rest \in SrcWith(opens, n - 1 - k)}
                     : k \in 0..(n - 1)}}

Sources == UNION {SrcWith(Opens, n) : n \in 0..MaxCalls}
ExtractSources == UNION {SrcWith(ExtractOpens, n) : n \in 0..MaxExtractCalls}

RECURSIVE MatchEnd(_, _, _)
MatchEnd(src, i, depth) ==
  IF src[i].fn = "end"
  THEN IF depth = 1 THEN i ELSE MatchEnd(src, i + 1, depth - 1)
  ELSE MatchEnd(src, i + 1, depth + 1)

\* func.end of the call opened at token i
FuncEnd(src, i) == MatchEnd(src, i + 1, 1)

(***************************************************************************)
(* The heap of tree nodes.  `nodes` is a sequence of node objects; a       *)
(* node's identity is its index.  Node 1 is the TestRoot.                  *)
(***************************************************************************)
Root == 1
NoNode == 0
NoLocation == [uri |-> "", range |-> <<0, 0>>]
NoItem == [kind |-> "none"]

TestRoot ==
  [kind |-> "root", label |-> "VS Code Unit Tests", location |-> NoLocation,
   generation |-> -1, children |-> {}, suite |-> NoNode]

TestSuite(label, location) ==
  [kind |-> "suite", label |-> label, location |-> location,
   generation |-> -1, children |-> {}, suite |-> NoNode]

TestCase(label, location, generation) ==
  [kind |-> "case", label |-> IF label = "" THEN "<empty>" ELSE label,
   location |-> location, generation |-> generation, children |-> {},
   suite |-> NoNode]

locationEquals(a, b) == a.uri = b.uri /\ a.range = b.range

\* childrenByName.get(label): the set holding the child of that label, if any
childrenByName(ns, p, label) == {c \in ns[p].children : ns[c].label = label}

\* addChild with the location assigned before it is compared
addChild_assignBeforeCompare(ns, p, suiteOrCase) ==
  LET found == childrenByName(ns, p, suiteOrCase.label)
      existing == IF found = {} THEN NoNode ELSE CHOOSE c \in found : TRUE
      id == Len(ns) + 1
  IN IF existing # NoNode /\ ns[existing].kind = suiteOrCase.kind
     THEN LET moved == [ns EXCEPT ![existing].generation =
                                    IF ns[existing].kind = "case"
                                    THEN suiteOrCase.generation ELSE @,
                                  ![existing].location = suiteOrCase.location]
          IN [nodes |-> moved, node |-> existing,
              changed |-> ~locationEquals(suiteOrCase.location,
                                          moved[existing].location),
              fresh |-> FALSE]
     ELSE [nodes |-> Append([ns EXCEPT ![p].children = (@ \ found) \cup {id}],
                            suiteOrCase),
           node |-> id, changed |-> FALSE, fresh |-> TRUE]

\* addChild that stamps the existing case with the new generation and leaves
\* its location alone
addChild_locationKept(ns, p, suiteOrCase) ==
  LET found == childrenByName(ns, p, suiteOrCase.label)
      existing == IF found = {} THEN NoNode ELSE CHOOSE c \in found : TRUE
      merge == existing # NoNode /\
               \/ ns[existing].kind = "case" /\ suiteOrCase.kind = "case"
               \/ ns[existing].kind = "suite" /\ suiteOrCase.kind = "suite"
      id == Len(ns) + 1
  IN IF merge
     THEN [nodes |-> [ns EXCEPT ![existing].generation =
                                   IF ns[existing].kind = "case"
                                   THEN suiteOrCase.generation ELSE @],
           node |-> existing,
           changed |-> ~locationEquals(suiteOrCase.location, ns[existing].location),
           fresh |-> FALSE]
     ELSE [nodes |-> Append([ns EXCEPT ![p].children = (@ \ found) \cup {id}],
                            suiteOrCase),
           node |-> id, changed |-> FALSE, fresh |-> TRUE]

\* TestItemWithChildren.addChild: [nodes, node, changed, fresh]; fresh is
\* `deduped === suiteOrCase`
TestItemWithChildren_addChild(ns, p, suiteOrCase) ==
  LET found == childrenByName(ns, p, suiteOrCase.label)
      existing == IF found = {} THEN NoNode ELSE CHOOSE c \in found : TRUE
      merge == existing # NoNode /\
               \/ ns[existing].kind = "case" /\ suiteOrCase.kind = "case"
               \/ ns[existing].kind = "suite" /\ suiteOrCase.kind = "suite"
      id == Len(ns) + 1
  IN IF merge
     THEN [nodes |-> [ns EXCEPT ![existing].generation =
                                   IF ns[existing].kind = "case"
                                   THEN suiteOrCase.generation ELSE @,
                                ![existing].location = suiteOrCase.location],
           node |-> existing,
           changed |-> ~locationEquals(suiteOrCase.location, ns[existing].location),
           fresh |-> FALSE]
     ELSE [nodes |-> Append([ns EXCEPT ![p].children = (@ \ found) \cup {id}],
                            suiteOrCase),
           node |-> id, changed |-> FALSE, fresh |-> TRUE]

\* TestSuite.addChild (override): the returned node's back pointer is set
TestSuite_addChild(ns, p, suiteOrCase) ==
  LET deduped == TestItemWithChildren_addChild(ns, p, suiteOrCase)
  IN [deduped EXCEPT !.nodes = [@ EXCEPT ![deduped.node].suite = p]]

addChild(ns, p, suiteOrCase) ==
  IF ns[p].kind = "suite"
  THEN TestSuite_addChild(ns, p, suiteOrCase)
  ELSE TestItemWithChildren_addChild(ns, p, suiteOrCase)

\* the prune test for a TestCase child
isStale(child, inFile, generation) ==
  child.location.uri = inFile /\ child.generation < generation

RECURSIVE prune(_, _, _, _, _), pruneChildren(_, _, _, _, _, _)
\* the loop without `changes.add(this)` for a suite that was emptied
pruneChildren_suiteUnrecorded(ns, n, todo, inFile, generation, changes) ==
  IF todo = {} THEN [nodes |-> ns, changes |-> changes]
  ELSE LET child == CHOOSE c \in todo : TRUE
           rest == todo \ {child}
       IN IF ns[child].kind = "case"
          THEN IF isStale(ns[child], inFile, generation)
               THEN pruneChildren([ns EXCEPT ![n].children = @ \ {child}], n, rest,
                                  inFile, generation, changes \cup {n})
               ELSE pruneChildren(ns, n, rest, inFile, generation, changes)
          ELSE LET r == prune(ns, child, inFile, generation, changes)
               IN IF ~r.has
                  THEN pruneChildren([r.nodes EXCEPT ![n].children = @ \ {child}],
                                     n, rest, inFile, generation, r.changes \ {child})
                  ELSE pruneChildren(r.nodes, n, rest, inFile, generation, r.changes)

\* the loop of prune over the children still to visit
pruneChildren(ns, n, todo, inFile, generation, changes) ==
  IF todo = {} THEN [nodes |-> ns, changes |-> changes]
  ELSE LET child == CHOOSE c \in todo : TRUE
           rest == todo \ {child}
       IN IF ns[child].kind = "case"
          THEN IF isStale(ns[child], inFile, generation)
               THEN pruneChildren([ns EXCEPT ![n].children = @ \ {child}], n, rest,
                                  inFile, generation, changes \cup {n})
               ELSE pruneChildren(ns, n, rest, inFile, generation, changes)
          ELSE LET r == prune(ns, child, inFile, generation, changes)
               IN IF ~r.has
                  THEN pruneChildren([r.nodes EXCEPT ![n].children = @ \ {child}],
                                     n, rest, inFile, generation,
                                     (r.changes \ {child}) \cup {n})
                  ELSE pruneChildren(r.nodes, n, rest, inFile, generation, r.changes)

\* prune that reports children left whatever the map holds
prune_alwaysHas(ns, n, inFile, generation, changes) ==
  LET r == pruneChildren(ns, n, ns[n].children, inFile, generation, changes)
  IN [nodes |-> r.nodes, changes |-> r.changes, has |-> TRUE]

\* TestItemWithChildren.prune: [nodes, changes, has]
prune(ns, n, inFile, generation, changes) ==
  LET r == pruneChildren(ns, n, ns[n].children, inFile, generation, changes)
  IN [nodes |-> r.nodes, changes |-> r.changes,
      has |-> r.nodes[n].children # {}]

(***************************************************************************)
(* Extraction.                                                             *)
(***************************************************************************)
extractTestFromNode(src, i, file, thisGeneration) ==
  LET location == [uri |-> file, range |-> <<i, FuncEnd(src, i)>>]
  IN IF src[i].fn = "test"
     THEN TestCase(src[i].name, location, thisGeneration)
     ELSE IF src[i].fn \in suiteNames
          THEN TestSuite(src[i].name, location)
          ELSE NoItem

Front(s) == SubSeq(s, 1, Len(s) - 1)

\* traverse, from token i on; st = [nodes, parents, frames, changedTests].
\* frames records, for every open call, whether it pushed onto parents.
RECURSIVE traverse(_, _, _, _, _)
traverse(src, file, thisGeneration, i, st) ==
  IF i > Len(src) THEN st
  ELSE IF src[i].fn = "end"
  THEN traverse(src, file, thisGeneration, i + 1,
                [st EXCEPT !.frames = Front(@),
                           !.parents = IF st.frames[Len(st.frames)]
                                       THEN Front(@) ELSE @])
  ELSE LET testItem == extractTestFromNode(src, i, file, thisGeneration)
       IN IF testItem.kind = "none"
          THEN traverse(src, file, thisGeneration, i + 1,
                        [st EXCEPT !.frames = Append(@, FALSE)])
          ELSE LET parent == st.parents[Len(st.parents)]
                   r == addChild(st.nodes, parent, testItem)
                   c1 == IF r.changed THEN st.changedTests \cup {r.node}
                         ELSE st.changedTests
                   c2 == IF r.fresh THEN c1 \cup {parent} ELSE c1
               IN IF r.nodes[r.node].kind = "suite"
                  THEN traverse(src, file, thisGeneration, i + 1,
                                [nodes |-> r.nodes,
                                 parents |-> Append(st.parents, r.node),
                                 frames |-> Append(st.frames, TRUE),
                                 changedTests |-> c2])
                  ELSE traverse(src, file, thisGeneration, FuncEnd(src, i) + 1,
                                [st EXCEPT !.nodes = r.nodes, !.changedTests = c2])

\* extractTests(source, {root, file, ...}): [nodes, changedTests]
extractTests(ns, src, file, thisGeneration) ==
  LET st == traverse(src, file, thisGeneration, 1,
                     [nodes |-> ns, parents |-> <<Root>>, frames |-> << >>,
                      changedTests |-> {}])
  IN [nodes |-> st.nodes, changedTests |-> st.changedTests]

\* the synchronous part of updateTestsInFile, after the content was read
discoverPass(ns, src, file, thisGeneration) ==
  LET e == extractTests(ns, src, file, thisGeneration)
      p == prune(e.nodes, Root, file, thisGeneration, e.changedTests)
  IN [nodes |-> p.nodes, changes |-> p.changes]

\* a delete-prune with the generation of the last pass instead of a new one
removeGeneration_lastPass(generation) == generation - 1

\* the generation removeTestsForFile hands to prune (generation++)
removeGeneration(generation) == generation

(***************************************************************************)
(* Tree views used by the properties.                                      *)
(***************************************************************************)
RECURSIVE Reach(_, _)
Reach(ns, n) == {n} \cup UNION {Reach(ns, c) : c \in ns[n].children}
Attached(ns) == Reach(ns, Root) \ {Root}

RECURSIVE PathOf(_, _, _)
\* labels from the root down to n, given n is attached
PathOf(ns, n, from) ==
  IF n \in ns[from].children THEN <<ns[n].label>>
  ELSE LET via == CHOOSE c \in ns[from].children : n \in Reach(ns, c)
       IN <<ns[via].label>> \o PathOf(ns, n, via)

\* label path and kind of every attached node
Shape(ns) == {[path |-> PathOf(ns, n, Root), kind |-> ns[n].kind] : n \in Attached(ns)}

\* the attached node at a label path with a kind, NoNode if none
NodeAt(ns, d) ==
  LET hit == {n \in Attached(ns) : PathOf(ns, n, Root) = d.path /\ ns[n].kind = d.kind}
  IN IF hit = {} THEN NoNode ELSE CHOOSE n \in hit : TRUE

(***************************************************************************)
(* Fully qualified names of a node, as the versions of the tree build them *)
(* for the pending map of a run.                                           *)
(***************************************************************************)
idPrefix == "ms-vscode.vscode-selfhost-test-provider/"

RECURSIVE TestItem_id(_, _)
\* TestRoot.id, TestSuite.id, TestCase.id
TestItem_id(ns, n) ==
  IF ns[n].kind = "root" THEN idPrefix
  ELSE IF ns[n].suite # NoNode
       THEN TestItem_id(ns, ns[n].suite) \o " " \o ns[n].label
       ELSE idPrefix \o ns[n].label

RECURSIVE fullTitle(_, _)
\* TestSuite.fullTitle, TestCase.fullTitle
fullTitle(ns, n) ==
  IF ns[n].suite # NoNode
  THEN fullTitle(ns, ns[n].suite) \o " " \o ns[n].label
  ELSE ns[n].label

\* the item a suite or case was constructed under
parent(ns, n) == CHOOSE p \in 1..Len(ns) : n \in ns[p].children
getFullLabel(ns, p, label) ==
  IF ns[p].kind = "suite" THEN ns[p].label \o " " \o label ELSE label
\* the fullLabel field of TestSuite and TestCase
fullLabel(ns, n) == getFullLabel(ns, parent(ns, n), ns[n].label)

(***************************************************************************)
(* State.                                                                  *)
(*   nodes, generation  the tree under one TestRoot and the module-level   *)
(*                      generation counter                                 *)
(*   changes            the set of nodes fired through the change emitter  *)
(*                      by the last pass or delete-prune                   *)
(*   log, before, call  history: the operations applied so far, the heap   *)
(*                      before the last one, the last direct addChild call *)
(*   scanPc .. nEvents  one scanTestOutput call: its position, the         *)
(*                      pending map `tests` (titles in insertion order),   *)
(*                      its locals, the calls made on the TestRun (sink)   *)
(*   events, fsHangs,   history: the lines, errors and cancellation        *)
(*   snapshot           delivered so far; whether the file reads of        *)
(*                      getSourceLocation never return in this run; the    *)
(*                      pending map the call was entered with              *)
(*   runPc .. consumed  the run requests, the runQueue promise chain, the  *)
(*                      test process of each run and the lines its scan    *)
(*                      consumed                                           *)
(*   task               the calls made on the TestRun of each run request  *)
(*   content .. fsEvents  the files on disk, the initial discovery loop    *)
(*                      and its workers, the updateTestsInFile calls in    *)
(*                      flight                                             *)
(*   handed             history: how far the initial loop got with each    *)
(*                      file that findFiles returned                       *)
(*   totalProcessedTime, the throttle of the initial loop: the time spent  *)
(*   now, thPc, due     in passes, Date.now() - startedAt, whether the     *)
(*                      worker is in a delay, and when its timer is due    *)
(***************************************************************************)
VARIABLES nodes, generation, changes, log, before, call,
          scanPc, listening, tests, skippedTests, lastTest, currentTest,
          ranAnyTest, exitBlockers, awaited, nextBlocker, sink, cancelled,
          disposed, nEvents, events, fsHangs, snapshot,
          runPc, chain, proc, consumed, task,
          content, discPc, backlog, spawned, wpc, ops, nextOp, fsEvents, handed,
          totalProcessedTime, now, thPc, due,
          hasBeenRead, titleMap, include,
          items, fsLog,
          queuedFiles, debounced, listener, cancelRequested, fileEvents, started,
          exited, session, dbgListener, active, stopped

treeVars == <<nodes, generation, changes, log, before, call>>
scanVars == <<scanPc, listening, tests, skippedTests, lastTest, currentTest,
              ranAnyTest, exitBlockers, awaited, nextBlocker, sink, cancelled,
              disposed, nEvents, events, fsHangs, snapshot>>
runVars == <<runPc, chain, proc, consumed, task>>
clock == <<totalProcessedTime, now, thPc, due>>
discVars == <<content, discPc, backlog, spawned, wpc, ops, nextOp, fsEvents,
              handed, clock>>
\* the state of extension.ts: the pending map of a run request, the items of
\* the controller, a continuous run request, a debug run
pendVars == <<hasBeenRead, titleMap, include>>
ctrlVars == <<items, fsLog>>
contVars == <<queuedFiles, debounced, listener, cancelRequested, fileEvents, started>>
dbgVars == <<exited, session, dbgListener, active, stopped>>
extVars == <<pendVars, ctrlVars, contVars, dbgVars>>
vars == <<treeVars, scanVars, runVars, discVars, extVars>>
notTree == <<scanVars, runVars, discVars, extVars>>
notScan == <<treeVars, runVars, discVars, extVars>>
notRun == <<treeVars, scanVars, discVars, extVars>>
\* a discovery operation works on nodes, generation and changes
notDisc == <<log, before, call, scanVars, runVars, clock, extVars>>

PendIdle ==
  /\ hasBeenRead = {}
  /\ titleMap = << >>
  /\ include = << >>

CtrlIdle ==
  /\ items = {}
  /\ fsLog = << >>

ContIdle ==
  /\ queuedFiles = << >>
  /\ debounced = 0
  /\ listener = FALSE
  /\ cancelRequested = FALSE
  /\ fileEvents = << >>
  /\ started = << >>

DbgIdle ==
  /\ exited = FALSE
  /\ session = 0
  /\ dbgListener = "none"
  /\ active = {}
  /\ stopped = {}

ExtIdle == PendIdle /\ CtrlIdle /\ ContIdle /\ DbgIdle

NoCall == [parent |-> NoNode]

TreeIdle ==
  /\ nodes = <<TestRoot>>
  /\ generation = 0
  /\ changes = {}
  /\ log = << >>
  /\ before = <<TestRoot>>
  /\ call = NoCall

(***************************************************************************)
(* scanTestOutput(tests, task, scanner, cancellation).                     *)
(***************************************************************************)
\* events of one process delivered to the handlers
MaxEvents == 3

NoTest == "none"
TestTitles == {"a aa", "a ab"}
HookTitle == "\"before each\" hook for a aa"
OtherTitle == "z zz"
\* a test whose own title holds the words mocha puts in a hook's title
HookNamedTest == "a sets the hook for aa"
EventTitles == TestTitles \cup {HookTitle, OtherTitle}

\* id.includes('hook for')
includesHookFor(id) == id \in {HookTitle, HookNamedTest}

RECURSIVE Perms(_)
Perms(S) == IF S = {} THEN {<< >>}
            ELSE UNION {{<<x>> \o p : p \in Perms(S \ {x})} : x \in S}
\* the pending maps a run can start with
PendingMaps == UNION {Perms(S) : S \in SUBSET TestTitles}

Range(s) == {s[i] : i \in 1..Len(s)}
RECURSIVE Without(_, _)
\* Map.delete / Set.delete on an insertion-ordered collection
Without(s, x) ==
  IF s = << >> THEN << >>
  ELSE IF s[1] = x THEN Without(Tail(s), x) ELSE <<s[1]>> \o Without(Tail(s), x)

\* tests.get(title)
testsGet(m, title) == IF title \in Range(m) THEN title ELSE NoTest
\* tests.values().next().value
firstValue(m) == IF m = << >> THEN NoTest ELSE m[1]

Emit(c, t) == [call |-> c, test |-> t]
RECURSIVE EmitAll(_, _)
EmitAll(c, s) == IF s = << >> THEN << >> ELSE <<Emit(c, s[1])>> \o EmitAll(c, Tail(s))

\* the finally block: dispose, mark the never-started tests skipped, end
finallyCalls(skipped) == EmitAll("skipped", skipped) \o <<Emit("end", NoTest)>>

\* the names the onMochaEvent switch has a case for
MochaEvent == {"start", "testStart", "pass", "fail", "end"}

\* lines of the process's stdout/stderr, by what JSON.parse makes of them:
\*   tuple  an array of length 2 whose first element is a string (name)
\*   json   any other JSON value
\*   text   not JSON; name tells whether spdlogRe matches it
Line(shape, name, title) == [shape |-> shape, name |-> name, title |-> title]
TupleLines ==
  {Line("tuple", n, "") : n \in {"start", "end", "suite"}}
    \cup {Line("tuple", n, t) : n \in {"testStart", "pass"}, t \in TestTitles \cup {OtherTitle}}
    \cup {Line("tuple", "fail", t) : t \in EventTitles}
OtherLines == {Line("json", "", ""), Line("text", "plain", ""), Line("text", "spdlog", "")}
Lines == TupleLines \cup OtherLines

\* TestOutputScanner.processData: the emitter the line is fired on
processData(data) == IF data.shape = "tuple" THEN "mocha" ELSE "output"

\* what the process and the token deliver besides lines
RunnerError == Line("error", "", "")
Cancellation == Line("cancel", "", "")

ScanIdle ==
  /\ scanPc = "start"
  /\ listening = FALSE
  /\ tests = << >>
  /\ skippedTests = << >>
  /\ lastTest = NoTest
  /\ currentTest = NoTest
  /\ ranAnyTest = FALSE
  /\ exitBlockers = {}
  /\ awaited = {}
  /\ nextBlocker = 1
  /\ sink = << >>
  /\ cancelled = FALSE
  /\ disposed = FALSE
  /\ nEvents = 0
  /\ events = << >>
  /\ fsHangs = FALSE
  /\ snapshot = << >>

ScanInit ==
  /\ scanPc = "start"
  /\ listening = FALSE
  /\ tests \in PendingMaps
  /\ skippedTests = tests
  /\ lastTest = NoTest
  /\ currentTest = NoTest
  /\ ranAnyTest = FALSE
  /\ exitBlockers = {}
  /\ awaited = {}
  /\ nextBlocker = 1
  /\ sink = << >>
  /\ cancelled = FALSE
  /\ disposed = FALSE
  /\ nEvents = 0
  /\ events = << >>
  /\ fsHangs \in BOOLEAN
  /\ snapshot = tests

\* a return that leaves the function without its finally block
scanFinally_noEnd(out) ==
  /\ scanPc' = "done"
  /\ disposed' = TRUE
  /\ sink' = out

\* the finally block, entered with the sink calls made so far in this step
scanFinally(out) ==
  /\ scanPc' = "done"
  /\ disposed' = TRUE
  /\ sink' = out \o finallyCalls(skippedTests)

\* the code after `await new Promise(...)`, run to its next suspension:
\* Promise.all over the blockers still unsettled (ids pending), then the
\* showMostRecentOutput command when no test ran, then the finally block
Continue(out, pending) ==
  IF pending # {}
  THEN /\ scanPc' = "draining"
       /\ sink' = out
       /\ UNCHANGED disposed
  ELSE IF ~ranAnyTest
       THEN /\ scanPc' = "showing"
            /\ sink' = out
            /\ UNCHANGED disposed
       ELSE scanFinally(out)

\* the promise scanTestOutput awaits, once resolve() was called
resolved(pc) == IF pc = "scanning" THEN "draining" ELSE pc
\* resolve() at the end of a handler that made the sink calls out; the
\* continuation snapshots [...exitBlockers] for Promise.all
Resolve(out) ==
  IF resolved(scanPc) # scanPc
  THEN /\ awaited' = {b.id : b \in exitBlockers}
       /\ Continue(out, {b.id : b \in exitBlockers})
  ELSE /\ sink' = out
       /\ UNCHANGED <<scanPc, awaited, disposed>>

Delivered(e) ==
  /\ listening
  /\ nEvents < MaxEvents
  /\ nEvents' = nEvents + 1
  /\ events' = Append(events, e)

\* enqueueExitBlocker(prom)
enqueueExitBlocker(kind, test) ==
  /\ exitBlockers' = exitBlockers \cup
                       {[id |-> nextBlocker, kind |-> kind, test |-> test,
                         at |-> Len(events) + 1]}
  /\ nextBlocker' = nextBlocker + 1

\* entry of scanTestOutput: the early return when already cancelled, else the
\* listeners are registered
scanBegin ==
  /\ scanPc = "start"
  /\ IF cancelled
     THEN /\ scanFinally(sink)
          /\ UNCHANGED listening
     ELSE /\ scanPc' = "scanning"
          /\ listening' = TRUE
          /\ UNCHANGED <<disposed, sink>>
  /\ UNCHANGED <<tests, skippedTests, lastTest, currentTest, ranAnyTest,
                 exitBlockers, awaited, nextBlocker, cancelled, nEvents, events,
                 fsHangs, snapshot, notScan>>

\* cancellation.onCancellationRequested
onCancellationRequested ==
  /\ ~cancelled
  /\ cancelled' = TRUE
  /\ events' = Append(events, Cancellation)
  /\ IF listening THEN Resolve(sink) ELSE UNCHANGED <<scanPc, awaited, sink, disposed>>
  /\ UNCHANGED <<listening, tests, skippedTests, lastTest, currentTest, ranAnyTest,
                 exitBlockers, nextBlocker, nEvents, fsHangs, snapshot, notScan>>

\* the error is shown but the awaited promise is left pending
onRunnerError_noResolve ==
  /\ Delivered(RunnerError)
  /\ sink' = Append(sink, Emit("output", currentTest))
  /\ UNCHANGED <<scanPc, awaited, disposed, listening, tests, skippedTests, lastTest,
                 currentTest, ranAnyTest, exitBlockers, nextBlocker, cancelled,
                 fsHangs, snapshot, notScan>>

\* scanner.onRunnerError
onRunnerError ==
  /\ Delivered(RunnerError)
  /\ Resolve(Append(sink, Emit("output", currentTest)))
  /\ UNCHANGED <<listening, tests, skippedTests, lastTest, currentTest, ranAnyTest,
                 exitBlockers, nextBlocker, cancelled, fsHangs, snapshot, notScan>>

\* scanner.onOtherOutput
onOtherOutput(str) ==
  /\ processData(str) = "output"
  /\ Delivered(str)
  /\ IF str.name = "spdlog"
     THEN /\ enqueueExitBlocker("output", NoTest)
          /\ UNCHANGED sink
     ELSE /\ sink' = Append(sink, Emit("output", currentTest))
          /\ UNCHANGED <<exitBlockers, nextBlocker>>
  /\ UNCHANGED <<scanPc, listening, tests, skippedTests, lastTest, currentTest,
                 ranAnyTest, awaited, cancelled, disposed, fsHangs, snapshot, notScan>>

\* MochaEvent.Start, and every event name the switch has no case for
onMochaEvent(evt) ==
  /\ processData(evt) = "mocha"
  /\ evt.name \notin MochaEvent \ {"start"}
  /\ Delivered(evt)
  /\ UNCHANGED <<scanPc, listening, tests, skippedTests, lastTest, currentTest,
                 ranAnyTest, exitBlockers, awaited, nextBlocker, sink, cancelled,
                 disposed, fsHangs, snapshot, notScan>>

\* MochaEvent.TestStart
onTestStart(title) ==
  /\ Delivered(Line("tuple", "testStart", title))
  /\ currentTest' = testsGet(tests, title)
  /\ skippedTests' = Without(skippedTests, testsGet(tests, title))
  /\ ranAnyTest' = TRUE
  /\ UNCHANGED <<scanPc, listening, tests, lastTest, exitBlockers, awaited,
                 nextBlocker, sink, cancelled, disposed, fsHangs, snapshot, notScan>>

\* a Pass case that holds the outcome back while a promise is unsettled
onPass_afterBlockers(title) ==
  /\ Delivered(Line("tuple", "pass", title))
  /\ LET tcase == testsGet(tests, title)
     IN IF tcase # NoTest /\ exitBlockers = {}
        THEN /\ lastTest' = tcase
             /\ sink' = sink \o <<Emit("output", NoTest), Emit("passed", tcase)>>
             /\ tests' = Without(tests, title)
        ELSE /\ sink' = Append(sink, Emit("output", NoTest))
             /\ UNCHANGED <<lastTest, tests>>
  /\ UNCHANGED <<scanPc, listening, skippedTests, currentTest, ranAnyTest,
                 exitBlockers, awaited, nextBlocker, cancelled, disposed, fsHangs,
                 snapshot, notScan>>

\* MochaEvent.Pass
onPass(title) ==
  /\ Delivered(Line("tuple", "pass", title))
  /\ LET tcase == testsGet(tests, title)
     IN IF tcase # NoTest
        THEN /\ lastTest' = tcase
             /\ sink' = sink \o <<Emit("output", NoTest), Emit("passed", tcase)>>
             /\ tests' = Without(tests, title)
        ELSE /\ sink' = Append(sink, Emit("output", NoTest))
             /\ UNCHANGED <<lastTest, tests>>
  /\ UNCHANGED <<scanPc, listening, skippedTests, currentTest, ranAnyTest,
                 exitBlockers, awaited, nextBlocker, cancelled, disposed, fsHangs,
                 snapshot, notScan>>

\* attribution that takes every unknown title for a hook's
failTarget_anyMiss(m, last, id) ==
  IF testsGet(m, id) # NoTest THEN testsGet(m, id)
  ELSE IF last # NoTest THEN last ELSE firstValue(m)

\* the test a fail event is attributed to
failTarget(m, last, id) ==
  IF testsGet(m, id) # NoTest THEN testsGet(m, id)
  ELSE IF includesHookFor(id)
       THEN IF last # NoTest THEN last ELSE firstValue(m)
       ELSE NoTest

\* MochaEvent.Fail
onFail(id) ==
  /\ Delivered(Line("tuple", "fail", id))
  /\ sink' = Append(sink, Emit("output", NoTest))
  /\ LET tcase == failTarget(tests, lastTest, id)
     IN IF tcase = NoTest
        THEN UNCHANGED <<tests, exitBlockers, nextBlocker>>
        ELSE /\ tests' = Without(tests, id)
             /\ enqueueExitBlocker("fail", tcase)
  /\ UNCHANGED <<scanPc, listening, skippedTests, lastTest, currentTest, ranAnyTest,
                 awaited, cancelled, disposed, fsHangs, snapshot, notScan>>

\* MochaEvent.End
onEnd ==
  /\ Delivered(Line("tuple", "end", ""))
  /\ Resolve(sink)
  /\ UNCHANGED <<listening, tests, skippedTests, lastTest, currentTest, ranAnyTest,
                 exitBlockers, nextBlocker, cancelled, fsHangs, snapshot, notScan>>

\* message.location = location ?? testFirstLine
messageLocation(location) == IF location # "undefined" THEN location ELSE "testFirstLine"
\* task.failed(tcase, message, duration)
Failed(tcase, location) ==
  [call |-> "failed", test |-> tcase, location |-> messageLocation(location)]

\* an enqueued promise settles, the file read of getSourceLocation having
\* returned: tryDeriveLocation gave location (or undefined) and task.failed is
\* called; or the location of a logged line was derived (or not) and the line
\* is appended.  When it was the last promise Promise.all waited for, the
\* function continues.
settle(b, location) ==
  /\ b \in exitBlockers
  /\ ~fsHangs
  /\ exitBlockers' = exitBlockers \ {b}
  /\ LET out == Append(sink, IF b.kind = "fail" THEN Failed(b.test, location)
                             ELSE Emit("output", currentTest))
         pending == awaited \cap {c.id : c \in exitBlockers \ {b}}
     IN IF scanPc = "draining" /\ pending = {}
        THEN Continue(out, {})
        ELSE /\ sink' = out
             /\ UNCHANGED <<scanPc, disposed>>
  /\ UNCHANGED <<listening, tests, skippedTests, lastTest, currentTest,
                 ranAnyTest, awaited, nextBlocker, cancelled, nEvents, events,
                 fsHangs, snapshot, notScan>>

\* vscode.commands.executeCommand('testing.showMostRecentOutput') returns, or
\* throws into the catch clause
showMostRecentOutput(ok) ==
  /\ scanPc = "showing"
  /\ scanFinally(IF ok THEN sink ELSE Append(sink, Emit("output", NoTest)))
  /\ UNCHANGED <<listening, tests, skippedTests, lastTest, currentTest, ranAnyTest,
                 exitBlockers, awaited, nextBlocker, cancelled, nEvents, events,
                 fsHangs, snapshot, notScan>>

\* the failure of an enqueued promise
Rejection == Line("reject", "", "")

\* the async body enqueued by the Fail case throws: task.failed is not called
\* and the promise rejects.  When Promise.all waits for it, Promise.all
\* rejects at once: the catch clause appends the error, then the finally block
rejects(b) ==
  /\ b \in exitBlockers
  /\ b.kind = "fail"
  /\ ~fsHangs
  /\ exitBlockers' = exitBlockers \ {b}
  /\ events' = Append(events, Rejection)
  /\ IF scanPc = "draining" /\ b.id \in awaited
     THEN scanFinally(Append(sink, Emit("output", NoTest)))
     ELSE UNCHANGED <<scanPc, disposed, sink>>
  /\ UNCHANGED <<listening, tests, skippedTests, lastTest, currentTest,
                 ranAnyTest, awaited, nextBlocker, cancelled, nEvents,
                 fsHangs, snapshot, notScan>>

ScanNext ==
  \/ scanBegin
  \/ onCancellationRequested
  \/ onRunnerError
  \/ \E str \in OtherLines : onOtherOutput(str)
  \/ \E evt \in TupleLines : onMochaEvent(evt)
  \/ \E title \in TestTitles \cup {OtherTitle} : onTestStart(title)
  \/ \E title \in TestTitles \cup {OtherTitle} : onPass(title)
  \/ \E id \in EventTitles : onFail(id)
  \/ onEnd
  \/ \E b \in exitBlockers, location \in {"mapped", "undefined"} : settle(b, location)
  \/ \E ok \in BOOLEAN : showMostRecentOutput(ok)


(***************************************************************************)
(* The run queue: doTestRun chains every run onto runQueue.                *)
(***************************************************************************)
\* run requests
MaxRuns == 3
\* output lines of one test process
MaxLines == 2

Runs == 1..MaxRuns

RunIdle ==
  /\ runPc = [r \in Runs |-> "idle"]
  /\ chain = << >>
  /\ proc = [r \in Runs |-> "none"]
  /\ consumed = [r \in Runs |-> 0]
  /\ task = [r \in Runs |-> << >>]

PositionOf(r) == CHOOSE i \in 1..Len(chain) : chain[i] = r

\* a run started without waiting for the queue
queueFulfilled_unchained(r) == TRUE

\* the promise runQueue held when run r was chained has fulfilled
queueFulfilled(r) ==
  IF PositionOf(r) = 1 THEN TRUE ELSE runPc[chain[PositionOf(r) - 1]] = "finished"

\* the promise runQueue held when run r was chained has rejected
queueRejected(r) ==
  IF PositionOf(r) = 1 THEN FALSE
  ELSE runPc[chain[PositionOf(r) - 1]] \in {"rejected", "never"}

\* doTestRun is called: it awaits guessWorkspaceFolder and getPendingTestMap
doTestRun(r) ==
  /\ runPc[r] = "idle"
  /\ runPc' = [runPc EXCEPT ![r] = "preparing"]
  /\ UNCHANGED <<chain, proc, consumed, task, notRun>>

\* `if (!folder) return`
noFolder(r) ==
  /\ runPc[r] = "preparing"
  /\ runPc' = [runPc EXCEPT ![r] = "dropped"]
  /\ UNCHANGED <<chain, proc, consumed, task, notRun>>

\* ctrl.createTestRun(req), task.enqueued(test) for the tests of the map,
\* runQueue = runQueue.then(...)
enqueueRun(r) ==
  /\ runPc[r] = "preparing"
  /\ runPc' = [runPc EXCEPT ![r] = "queued"]
  /\ chain' = Append(chain, r)
  /\ task' = [task EXCEPT ![r] = Append(@, "enqueued")]
  /\ UNCHANGED <<proc, consumed, notRun>>

\* the then-callback of run r starts: runner.run / runner.debug is awaited
startRun(r) ==
  /\ runPc[r] = "queued"
  /\ queueFulfilled(r)
  /\ runPc' = [runPc EXCEPT ![r] = "spawning"]
  /\ UNCHANGED <<chain, proc, consumed, task, notRun>>

\* the callback of a then on a rejected promise is never called
passRejection(r) ==
  /\ runPc[r] = "queued"
  /\ queueRejected(r)
  /\ runPc' = [runPc EXCEPT ![r] = "never"]
  /\ UNCHANGED <<chain, proc, consumed, task, notRun>>

\* runner.run resolves with the scanner of the spawned process
runnerResolved(r) ==
  /\ runPc[r] = "spawning"
  /\ runPc' = [runPc EXCEPT ![r] = "scanning"]
  /\ proc' = [proc EXCEPT ![r] = "live"]
  /\ UNCHANGED <<chain, consumed, task, notRun>>

\* runner.run rejects: the then-callback throws before scanTestOutput is
\* called, and the promise it returned, the new runQueue, rejects
runnerRejected(r) ==
  /\ runPc[r] = "spawning"
  /\ runPc' = [runPc EXCEPT ![r] = "rejected"]
  /\ UNCHANGED <<chain, proc, consumed, task, notRun>>

\* scanTestOutput handles a line of the process
consumeLine(r) ==
  /\ runPc[r] = "scanning"
  /\ consumed[r] < MaxLines
  /\ consumed' = [consumed EXCEPT ![r] = @ + 1]
  /\ task' = [task EXCEPT ![r] = Append(@, "appendOutput")]
  /\ UNCHANGED <<runPc, chain, proc, notRun>>

\* scanTestOutput returns: its finally block disposed the scanner
scanReturned(r) ==
  /\ runPc[r] = "scanning"
  /\ runPc' = [runPc EXCEPT ![r] = "finished"]
  /\ proc' = [proc EXCEPT ![r] = "killed"]
  /\ task' = [task EXCEPT ![r] = Append(@, "end")]
  /\ UNCHANGED <<chain, consumed, notRun>>

RunNext ==
  \E r \in Runs :
     \/ doTestRun(r)
     \/ noFolder(r)
     \/ enqueueRun(r)
     \/ startRun(r)
     \/ passRejection(r)
     \/ runnerResolved(r)
     \/ runnerRejected(r)
     \/ consumeLine(r)
     \/ scanReturned(r)

(***************************************************************************)
(* createWorkspaceTestHierarchy: the watcher handlers and the initial      *)
(* discovery loop, every one calling updateTestsInFile.                    *)
(***************************************************************************)
\* calls in the text of a watched file
MaxDiscCalls == 1
\* file system events delivered by the watcher
MaxFsEvents == 2
\* the workers the loop `for (let i = 0; i < 4; i++)` pushes
Workers == 4

Absent == <<End>>
DiscSources == UNION {SrcWith(Calls({"test"}), n) : n \in 1..MaxDiscCalls}

\* startedAt = Date.now() and totalProcessedTime = 0
ClockIdle ==
  /\ totalProcessedTime = 0
  /\ now = 0
  /\ thPc = "idle"
  /\ due = 0

DiscIdle ==
  /\ content = [f \in Files |-> Absent]
  /\ discPc = "finding"
  /\ backlog = << >>
  /\ spawned = 0
  /\ wpc = [i \in 1..Workers |-> "none"]
  /\ ops = {}
  /\ nextOp = 1
  /\ fsEvents = 0
  /\ handed = [f \in Files |-> "no"]
  /\ ClockIdle

DiscInit ==
  /\ content \in [Files -> DiscSources \cup {Absent}]
  /\ discPc = "finding"
  /\ backlog = << >>
  /\ spawned = 0
  /\ wpc = [i \in 1..Workers |-> "none"]
  /\ ops = {}
  /\ nextOp = 1
  /\ fsEvents = 0
  /\ handed = [f \in Files |-> "no"]
  /\ ClockIdle

\* updateTestsInFile is called: getContents(file) is awaited
NewOp(file, by) == [id |-> nextOp, file |-> file, by |-> by, phase |-> "reading",
                    data |-> Absent]

FsEvent ==
  /\ fsEvents < MaxFsEvents
  /\ fsEvents' = fsEvents + 1

\* watcher.onDidCreate
onDidCreate(file, src) ==
  /\ FsEvent
  /\ content[file] = Absent
  /\ content' = [content EXCEPT ![file] = src]
  /\ ops' = ops \cup {NewOp(file, 0)}
  /\ nextOp' = nextOp + 1
  /\ UNCHANGED <<nodes, generation, changes, discPc, backlog, spawned, wpc, handed,
                 notDisc>>

\* watcher.onDidChange
onDidChange(file, src) ==
  /\ FsEvent
  /\ content[file] # Absent
  /\ content' = [content EXCEPT ![file] = src]
  /\ ops' = ops \cup {NewOp(file, 0)}
  /\ nextOp' = nextOp + 1
  /\ UNCHANGED <<nodes, generation, changes, discPc, backlog, spawned, wpc, handed,
                 notDisc>>

\* watcher.onDidDelete: removeTestsForFile
onDidDelete(file) ==
  /\ FsEvent
  /\ content[file] # Absent
  /\ content' = [content EXCEPT ![file] = Absent]
  /\ LET r == prune(nodes, Root, file, removeGeneration(generation), {})
     IN /\ nodes' = r.nodes
        /\ changes' = r.changes
  /\ generation' = generation + 1
  /\ UNCHANGED <<discPc, backlog, spawned, wpc, ops, nextOp, handed, notDisc>>

\* workspace.findFiles(pattern) resolves with the files on disk
findFiles ==
  /\ discPc = "finding"
  /\ discPc' = "spawning"
  /\ backlog' \in Perms({f \in Files : content[f] # Absent})
  /\ handed' = [f \in Files |-> IF content[f] # Absent THEN "queued" ELSE "no"]
  /\ UNCHANGED <<nodes, generation, changes, content, spawned, wpc, ops, nextOp,
                 fsEvents, notDisc>>

\* one turn of a worker's `while (files.length)`: files.pop() and the call of
\* updateTestsInFile, or the end of the worker
WorkerTurn(i) ==
  IF backlog = << >>
  THEN /\ wpc' = [wpc EXCEPT ![i] = "done"]
       /\ UNCHANGED <<backlog, ops, nextOp, handed>>
  ELSE /\ wpc' = [wpc EXCEPT ![i] = "busy"]
       /\ backlog' = Front(backlog)
       /\ handed' = [handed EXCEPT ![backlog[Len(backlog)]] = "called"]
       /\ ops' = ops \cup {NewOp(backlog[Len(backlog)], i)}
       /\ nextOp' = nextOp + 1

\* the loop body: workers.push(...) runs the new worker up to its first
\* await; `await Promise.all(workers)` inside the loop lets the next turn of
\* the loop start only when every worker pushed so far has ended
pushWorker ==
  /\ discPc = "spawning"
  /\ spawned < Workers
  /\ \A i \in 1..spawned : wpc[i] = "done"
  /\ spawned' = spawned + 1
  /\ WorkerTurn(spawned + 1)
  /\ UNCHANGED <<nodes, generation, changes, content, discPc, fsEvents, notDisc>>

\* the loop has ended: discoveredInitialTests resolves
discovered ==
  /\ discPc = "spawning"
  /\ spawned = Workers
  /\ \A i \in 1..Workers : wpc[i] = "done"
  /\ discPc' = "discovered"
  /\ UNCHANGED <<nodes, generation, changes, content, backlog, spawned, wpc, ops,
                 nextOp, fsEvents, handed, notDisc>>

\* workspace.fs.readFile reads the file of an operation in flight
readFile(op) ==
  /\ op \in ops
  /\ op.phase = "reading"
  /\ ops' = (ops \ {op}) \cup {[op EXCEPT !.phase = "loaded", !.data = content[op.file]]}
  /\ UNCHANGED <<nodes, generation, changes, content, discPc, backlog, spawned, wpc,
                 nextOp, fsEvents, handed, notDisc>>

\* updateTestsInFile without its try/catch: the read error rejects the call,
\* and with it the worker that awaited it
afterRead_noCatch(op) ==
  /\ op \in ops
  /\ op.phase = "loaded"
  /\ ops' = ops \ {op}
  /\ IF op.data = Absent
     THEN UNCHANGED <<nodes, generation, changes>>
     ELSE /\ LET r == discoverPass(nodes, op.data, op.file, generation)
             IN /\ nodes' = r.nodes
                /\ changes' = r.changes
          /\ generation' = generation + 1
  /\ wpc' = IF op.by = 0 THEN wpc
            ELSE [wpc EXCEPT ![op.by] = IF op.data = Absent THEN "rejected"
                                        ELSE "throttle"]
  /\ handed' = IF op.by = 0 THEN handed
               ELSE [handed EXCEPT ![op.file] = IF op.data = Absent THEN "failed"
                                                ELSE "passed"]
  /\ UNCHANGED <<content, discPc, backlog, spawned, nextOp, fsEvents, notDisc>>

\* the rest of updateTestsInFile, after `await getContents(file)`: the pass,
\* or the catch branch when the file could not be read
afterRead(op) ==
  /\ op \in ops
  /\ op.phase = "loaded"
  /\ ops' = ops \ {op}
  /\ IF op.data = Absent
     THEN UNCHANGED <<nodes, generation, changes>>
     ELSE /\ LET r == discoverPass(nodes, op.data, op.file, generation)
             IN /\ nodes' = r.nodes
                /\ changes' = r.changes
          /\ generation' = generation + 1
  /\ wpc' = IF op.by = 0 THEN wpc ELSE [wpc EXCEPT ![op.by] = "throttle"]
  /\ handed' = IF op.by = 0 THEN handed
               ELSE [handed EXCEPT ![op.file] = IF op.data = Absent THEN "failed"
                                                ELSE "passed"]
  /\ UNCHANGED <<content, discPc, backlog, spawned, nextOp, fsEvents, notDisc>>

\* a worker goes on after updateTestsInFile returned and the delay, if any
workerResume(i) ==
  /\ wpc[i] = "throttle"
  /\ WorkerTurn(i)
  /\ UNCHANGED <<nodes, generation, changes, content, discPc, spawned, fsEvents,
                 notDisc>>

DiscNext ==
  \/ \E file \in Files, src \in DiscSources : onDidCreate(file, src)
  \/ \E file \in Files, src \in DiscSources : onDidChange(file, src)
  \/ \E file \in Files : onDidDelete(file)
  \/ findFiles
  \/ pushWorker
  \/ discovered
  \/ \E op \in ops : readFile(op)
  \/ \E op \in ops : afterRead(op)
  \/ \E i \in 1..Workers : workerResume(i)

(***************************************************************************)
(* The throttle of the initial loop.  Times are whole milliseconds since   *)
(* startedAt.  A worker's turn awaits updateTestsInFile and then computes  *)
(* the delay; the timer of a delay fires when it is due or later.          *)
(***************************************************************************)
\* milliseconds a batch is followed for
MaxTime == 12
\* milliseconds one pass takes at most
MaxTook == 3
\* milliseconds the read of a file, or a late timer, adds at most
MaxWait == 1

MAX_BLOCKING_TARGET_PERCENT == 50

\* delayToGetBackDownToTarget, in whole milliseconds as setTimeout takes it:
\* (totalProcessedTime / duration - MAX_BLOCKING_TARGET) * duration; with
\* duration = 0 the product is NaN and the test `> 1` is false
delayToGetBackDownToTarget(processed, duration) ==
  IF duration = 0 THEN 0
  ELSE IF 100 * processed <= MAX_BLOCKING_TARGET_PERCENT * duration THEN 0
  ELSE (100 * processed - MAX_BLOCKING_TARGET_PERCENT * duration) \div 100

\* `delayToGetBackDownToTarget > 1`, before the truncation
delayIsOver1(processed, duration) ==
  /\ duration # 0
  /\ 100 * processed - MAX_BLOCKING_TARGET_PERCENT * duration > 100

\* one turn of the worker's while loop up to the delay: the read takes
\* `wait`, the pass `took`; a failed read takes no pass and returns 1
workerTurn(wait, took, failed) ==
  /\ thPc \in {"idle", "resumed"}
  /\ now + wait + took <= MaxTime
  /\ totalProcessedTime + (IF failed THEN 1 ELSE took) <= MaxTime
  /\ LET duration == now + wait + (IF failed THEN 0 ELSE took)
         processed == totalProcessedTime + (IF failed THEN 1 ELSE took)
     IN /\ now' = duration
        /\ totalProcessedTime' = processed
        /\ IF delayIsOver1(processed, duration)
           THEN /\ thPc' = "delaying"
                /\ due' = duration + delayToGetBackDownToTarget(processed, duration)
           ELSE /\ thPc' = "idle"
                /\ due' = due
  /\ UNCHANGED <<treeVars, scanVars, runVars, extVars, content, discPc, backlog, spawned, wpc,
                 ops, nextOp, fsEvents, handed>>

\* the timer of delay(...) fires and the worker goes on
timerFires(late) ==
  /\ thPc = "delaying"
  /\ now' = due + late
  /\ thPc' = "resumed"
  /\ UNCHANGED <<treeVars, scanVars, runVars, extVars, content, discPc, backlog, spawned, wpc,
                 ops, nextOp, fsEvents, handed, totalProcessedTime, due>>

ThrottleNext ==
  \/ \E wait \in 0..MaxWait, took \in 0..MaxTook, failed \in BOOLEAN :
       workerTurn(wait, took, failed)
  \/ \E late \in 0..MaxWait : timerFires(late)

(***************************************************************************)
(* TestFile (one test item per file): updateFromDisk reads the file and    *)
(* updateFromContents rebuilds the children of the file's item, node 1 of  *)
(* the heap, then prunes the ones of an older generation.                  *)
(***************************************************************************)
\* changes of the file on disk between passes
MaxFileChanges == 1

\* the file the TestFile stands for
TestFile_uri == "F"

\* getContentFromFilesystem: the decoded text, '' when the read throws
getContentFromFilesystem(disk) == IF disk = Absent THEN << >> ELSE disk

\* extractTestFromNode of sourceUtils: suites carry a generation too
extractTestFromNode_sourceUtils(src, i, file, thisGeneration) ==
  LET testItem == extractTestFromNode(src, i, file, thisGeneration)
  IN IF testItem.kind = "suite"
     THEN [testItem EXCEPT !.generation = thisGeneration]
     ELSE testItem

\* traverse of updateFromContents, from token i on; st = [nodes, parents, frames]
RECURSIVE TestFile_traverse(_, _, _, _, _)
TestFile_traverse(src, file, thisGeneration, i, st) ==
  IF i > Len(src) THEN st
  ELSE IF src[i].fn = "end"
  THEN TestFile_traverse(src, file, thisGeneration, i + 1,
                         [st EXCEPT !.frames = Front(@),
                                    !.parents = IF st.frames[Len(st.frames)]
                                                THEN Front(@) ELSE @])
  ELSE LET childData == extractTestFromNode_sourceUtils(src, i, file, thisGeneration)
       IN IF childData.kind = "none"
          THEN TestFile_traverse(src, file, thisGeneration, i + 1,
                                 [st EXCEPT !.frames = Append(@, FALSE)])
          ELSE LET p == st.parents[Len(st.parents)]
                   found == childrenByName(st.nodes, p, childData.label)
                   child == IF found = {} THEN Len(st.nodes) + 1
                            ELSE CHOOSE c \in found : TRUE
                   ns == IF found = {}
                         THEN Append([st.nodes EXCEPT ![p].children = @ \cup {child}],
                                     childData)
                         ELSE [st.nodes EXCEPT
                                 ![child].location = childData.location,
                                 ![child].generation = thisGeneration]
               IN IF ns[child].kind = "suite"
                  THEN TestFile_traverse(src, file, thisGeneration, i + 1,
                                         [nodes |-> ns,
                                          parents |-> Append(st.parents, child),
                                          frames |-> Append(st.frames, TRUE)])
                  ELSE TestFile_traverse(src, file, thisGeneration,
                                         FuncEnd(src, i) + 1,
                                         [st EXCEPT !.nodes = ns])

\* TestFile.prune: the items still to visit are in queue
RECURSIVE TestFile_prune(_, _, _)
TestFile_prune(ns, queue, thisGeneration) ==
  IF queue = {} THEN ns
  ELSE LET p == CHOOSE q \in queue : TRUE
           disposed_ == {c \in ns[p].children : ns[c].generation < thisGeneration}
           suites == {c \in ns[p].children \ disposed_ : ns[c].kind = "suite"}
       IN TestFile_prune([ns EXCEPT ![p].children = @ \ disposed_],
                         (queue \ {p}) \cup suites, thisGeneration)

\* TestFile.updateFromContents
updateFromContents(ns, content_, file, thisGeneration) ==
  LET st == TestFile_traverse(content_, file, thisGeneration, 1,
                              [nodes |-> ns, parents |-> <<Root>>, frames |-> << >>])
  IN TestFile_prune(st.nodes, {Root}, thisGeneration)

InitFile ==
  /\ TreeIdle /\ ScanIdle /\ RunIdle /\ ExtIdle
  /\ content \in {c \in [Files -> Sources \cup {Absent}] :
                    \A f \in Files \ {TestFile_uri} : c[f] = Absent}
  /\ discPc = "finding"
  /\ backlog = << >>
  /\ spawned = 0
  /\ wpc = [i \in 1..Workers |-> "none"]
  /\ ops = {}
  /\ nextOp = 1
  /\ fsEvents = 0
  /\ handed = [f \in Files |-> "no"]
  /\ ClockIdle

\* the file is rewritten, or becomes unreadable (data = Absent)
diskChange(data) ==
  /\ fsEvents < MaxFileChanges
  /\ fsEvents' = fsEvents + 1
  /\ content[TestFile_uri] # data
  /\ content' = [content EXCEPT ![TestFile_uri] = data]
  /\ UNCHANGED <<nodes, generation, changes, discPc, backlog, spawned, wpc, ops,
                 nextOp, handed, notDisc>>

\* TestFile.updateFromDisk, the read and the pass taken as one step
updateFromDisk ==
  /\ Cardinality({k \in 1..Len(log) : log[k].op = "updateFromDisk"}) < MaxPasses
  /\ nodes' = updateFromContents(nodes, getContentFromFilesystem(content[TestFile_uri]),
                                 TestFile_uri, generation)
  /\ generation' = generation + 1
  /\ before' = nodes
  /\ log' = Append(log, [op |-> "updateFromDisk", file |-> TestFile_uri,
                         src |-> content[TestFile_uri], generation |-> generation])
  /\ UNCHANGED <<changes, call, scanVars, runVars, discVars, extVars>>

FileNext ==
  \/ \E data \in Sources \cup {Absent} : diskChange(data)
  \/ updateFromDisk

SpecFile == InitFile /\ [][FileNext]_vars

(***************************************************************************)
(* The pending map of a run request (extension.ts).  The controller's      *)
(* items are the children of node 1, one item per test file; the suites    *)
(* and cases of a file are below its item once the file has been read.     *)
(***************************************************************************)
\* run requests
MaxRequests == 2

\* controller.createTestItem(data.getId(), data.getLabel(), uri)
FileItem(uri) ==
  [kind |-> "file", label |-> uri, location |-> [uri |-> uri, range |-> <<0, 0>>],
   generation |-> -1, children |-> {}, suite |-> NoNode]

RECURSIVE gatherTestItems(_)
\* collection.forEach(item => items.push(item)): the items in insertion order
gatherTestItems(collection) ==
  IF collection = {} THEN << >>
  ELSE LET first == CHOOSE n \in collection : \A m \in collection : n <= m
       IN <<first>> \o gatherTestItems(collection \ {first})

RECURSIVE TestConstruct_fullName(_, _)
\* this.fullName = parent ? `${parent.fullName} ${name}` : name
TestConstruct_fullName(ns, n) ==
  IF ns[parent(ns, n)].kind = "suite"
  THEN TestConstruct_fullName(ns, parent(ns, n)) \o " " \o ns[n].label
  ELSE ns[n].label

\* TestFile.updateFromContents(controller, content, item)
TestFile_updateFromContents(ns, item, content_, thisGeneration) ==
  LET st == TestFile_traverse(content_, ns[item].location.uri, thisGeneration, 1,
                              [nodes |-> ns, parents |-> <<item>>, frames |-> << >>])
  IN TestFile_prune(st.nodes, {item}, thisGeneration)

\* titleMap.set(key, item): a key that is present keeps its place and takes
\* the new value
mapSet(m, key, item) ==
  IF \E i \in 1..Len(m) : m[i].key = key
  THEN [i \in 1..Len(m) |-> IF m[i].key = key THEN [key |-> key, item |-> item]
                            ELSE m[i]]
  ELSE Append(m, [key |-> key, item |-> item])

RECURSIVE getPendingTestMap(_, _, _)
\* the loops of getPendingTestMap: `tests` is the list the for loop is in,
\* queue the lists pushed and not yet popped, st = [nodes, generation,
\* hasBeenRead, titleMap]
getPendingTestMap(st, queue, tests_) ==
  IF tests_ = << >>
  THEN IF queue = << >> THEN st
       ELSE getPendingTestMap(st, Front(queue), queue[Len(queue)])
  ELSE LET item == Head(tests_)
       IN IF st.nodes[item].kind = "file"
          THEN LET read ==
                     IF item \in st.hasBeenRead THEN st
                     ELSE [st EXCEPT
                             !.nodes = TestFile_updateFromContents(
                                         st.nodes, item,
                                         getContentFromFilesystem(
                                           content[st.nodes[item].location.uri]),
                                         st.generation),
                             !.generation = @ + 1,
                             !.hasBeenRead = @ \cup {item}]
               IN getPendingTestMap(
                    read, Append(queue, gatherTestItems(read.nodes[item].children)),
                    Tail(tests_))
          ELSE IF st.nodes[item].kind = "case"
          THEN getPendingTestMap(
                 [st EXCEPT !.titleMap = mapSet(@, TestConstruct_fullName(st.nodes, item),
                                                item)],
                 queue, Tail(tests_))
          ELSE getPendingTestMap(
                 st, Append(queue, gatherTestItems(st.nodes[item].children)),
                 Tail(tests_))

\* the requests a user can make: no include (undefined), or one item of the tree
Requests == {<< >>} \cup {<<n>> : n \in Attached(nodes)}

\* doTestRun up to the calls of task.enqueued: the map is built from
\* req.include ?? gatherTestItems(ctrl.items)
doTestRun_getPendingTestMap(req) ==
  /\ Len(include) < MaxRequests
  /\ LET tests_ == IF req = << >> THEN gatherTestItems(nodes[Root].children) ELSE req
         st == getPendingTestMap([nodes |-> nodes, generation |-> generation,
                                  hasBeenRead |-> hasBeenRead, titleMap |-> << >>],
                                 << >>, tests_)
     IN /\ include' = Append(include, tests_)
        /\ nodes' = st.nodes
        /\ generation' = st.generation
        /\ hasBeenRead' = st.hasBeenRead
        /\ titleMap' = st.titleMap
  /\ UNCHANGED <<changes, log, before, call, scanVars, runVars, discVars,
                 ctrlVars, contVars, dbgVars>>

\* startWatchingWorkspace has called getOrCreateFile for the files on disk
InitPending ==
  /\ nodes = <<[TestRoot EXCEPT !.children = {2, 3}], FileItem("F"), FileItem("G")>>
  /\ generation = 0
  /\ changes = {}
  /\ log = << >>
  /\ before = nodes
  /\ call = NoCall
  /\ ScanIdle /\ RunIdle /\ ExtIdle
  /\ content \in [Files -> Sources]
  /\ discPc = "finding"
  /\ backlog = << >>
  /\ spawned = 0
  /\ wpc = [i \in 1..Workers |-> "none"]
  /\ ops = {}
  /\ nextOp = 1
  /\ fsEvents = 0
  /\ handed = [f \in Files |-> "no"]
  /\ ClockIdle

PendingNext == \E req \in Requests : doTestRun_getPendingTestMap(req)

SpecPending == InitPending /\ [][PendingNext]_vars

(***************************************************************************)
(* The items of the controller and the file watcher (extension.ts).  A URI *)
(* is the sequence of the characters of uri.toString().                    *)
(***************************************************************************)
\* watcher events delivered
MaxWatch == 3

Uris == {<<"/", "t">>, <<"/", "T">>, <<"/", "u">>}

\* String.prototype.toLowerCase on one character
lowerChar(c) == IF c = "T" THEN "t" ELSE c
toLowerCase(str) == [i \in 1..Len(str) |-> lowerChar(str[i])]

\* TestFile.getId
getId(uri) == toLowerCase(uri)

\* controller.items.get(id)
itemsGet(coll, id) == {it \in coll : it.id = id}

\* getOrCreateFile: the item found under data.getId(), else a new item
\* created with that id and added to the collection
getOrCreateFile(coll, uri) ==
  IF itemsGet(coll, getId(uri)) # {} THEN coll
  ELSE coll \cup {[id |-> getId(uri), uri |-> uri]}

\* controller.items.delete(id)
itemsDelete(coll, id) == coll \ itemsGet(coll, id)

RECURSIVE registerAll(_, _)
\* for (const file of await findFiles(pattern)) getOrCreateFile(controller, file)
registerAll(coll, files) ==
  IF files = << >> THEN coll
  ELSE registerAll(getOrCreateFile(coll, Head(files)), Tail(files))

Watched(ev, uri) == [ev |-> ev, uri |-> uri]

\* the file is on disk: its last event is not its deletion
OnDisk(uri) ==
  LET mine == {i \in 1..Len(fsLog) : fsLog[i].uri = uri}
  IN mine # {} /\ fsLog[CHOOSE i \in mine : \A j \in mine : j <= i].ev # "delete"

\* watcher.onDidCreate
watcher_onDidCreate(uri) ==
  /\ Cardinality({i \in 1..Len(fsLog) : fsLog[i].ev # "found"}) < MaxWatch
  /\ ~OnDisk(uri)
  /\ fsLog' = Append(fsLog, Watched("create", uri))
  /\ items' = getOrCreateFile(items, uri)
  /\ UNCHANGED <<treeVars, scanVars, runVars, discVars, pendVars, contVars, dbgVars>>

\* watcher.onDidDelete
watcher_onDidDelete(uri) ==
  /\ Cardinality({i \in 1..Len(fsLog) : fsLog[i].ev # "found"}) < MaxWatch
  /\ OnDisk(uri)
  /\ fsLog' = Append(fsLog, Watched("delete", uri))
  /\ items' = itemsDelete(items, uri)
  /\ UNCHANGED <<treeVars, scanVars, runVars, discVars, pendVars, contVars, dbgVars>>

\* startWatchingWorkspace has registered the files findFiles returned
InitWatch ==
  /\ TreeIdle /\ ScanIdle /\ RunIdle /\ DiscIdle
  /\ PendIdle /\ ContIdle /\ DbgIdle
  /\ \E files \in UNION {Perms(S) : S \in SUBSET Uris} :
       /\ fsLog = [i \in 1..Len(files) |-> Watched("found", files[i])]
       /\ items = registerAll({}, files)

WatchNext ==
  \/ \E uri \in Uris : watcher_onDidCreate(uri)
  \/ \E uri \in Uris : watcher_onDidDelete(uri)

SpecWatch == InitWatch /\ [][WatchNext]_vars

(***************************************************************************)
(* A debug run (VSCodeTestRunner.debug).  Session 1 is the session that    *)
(* debug.startDebugging(repoLocation, ATTACH_CONFIG_NAME) starts; the      *)
(* other sessions are the user's and have other names.  dbgListener names  *)
(* the version of the onDidStartDebugSession handler that is registered.   *)
(***************************************************************************)
\* debug sessions
MaxSessions == 5

ATTACH_CONFIG_NAME == "Attach to VS Code"
Sessions == 1..MaxSessions
AttachSession == 1
sessionName(s) == IF s = AttachSession THEN ATTACH_CONFIG_NAME ELSE "Launch"
NoSession == 0

\* debug.stopDebugging(session): the given session, every session when the
\* argument is undefined; the sessions that are stopped
stopDebugging(running, s) == IF s = NoSession THEN running ELSE running \cap {s}

\* cp.once('exit', ...)
cpExit ==
  /\ dbgListener # "none"
  /\ ~exited
  /\ exited' = TRUE
  /\ LET halted == IF session # NoSession THEN stopDebugging(active, session) ELSE {}
     IN /\ active' = active \ halted
        /\ stopped' = stopped \cup halted
  /\ dbgListener' = IF dbgListener = "part_011" THEN "disposed" ELSE dbgListener
  /\ UNCHANGED <<session, treeVars, scanVars, runVars, discVars, pendVars, ctrlVars,
                 contVars>>

\* a debug session starts; debug.onDidStartDebugSession runs the handler
\* that is registered
onDidStartDebugSession(s) ==
  /\ dbgListener # "none"
  /\ s \notin active \cup stopped
  /\ LET mine == /\ sessionName(s) = ATTACH_CONFIG_NAME
                 /\ \/ dbgListener = "vscodeTestRunner"
                    \/ dbgListener = "part_011" /\ session = NoSession
         halted == IF mine /\ exited THEN stopDebugging(active \cup {s}, session)
                   ELSE {}
     IN /\ active' = (active \cup {s}) \ halted
        /\ stopped' = stopped \cup halted
        /\ session' = IF mine /\ ~exited THEN s ELSE session
        /\ dbgListener' = IF mine /\ dbgListener = "vscodeTestRunner" THEN "disposed"
                          ELSE dbgListener
  /\ UNCHANGED <<exited, treeVars, scanVars, runVars, discVars, pendVars, ctrlVars,
                 contVars>>

\* debug() has spawned the process and registered its handlers; the user may
\* have sessions of their own
InitDebug ==
  /\ TreeIdle /\ ScanIdle /\ RunIdle /\ DiscIdle
  /\ PendIdle /\ CtrlIdle /\ ContIdle
  /\ exited = FALSE
  /\ session = NoSession
  /\ dbgListener \in {"vscodeTestRunner", "part_011"}
  /\ active \in SUBSET (Sessions \ {AttachSession})
  /\ stopped = {}

DebugNext ==
  \/ cpExit
  \/ \E s \in Sessions : onDidStartDebugSession(s)

SpecDebug == InitDebug /\ [][DebugNext]_vars

(***************************************************************************)
(* A continuous run request (createRunHandler, the branch of               *)
(* req.continuous).  Times are milliseconds.  A timer runs when it is due: *)
(* time does not pass a due timer, and the handler of an event that        *)
(* arrives when a timer is due runs after the timer's callback.            *)
(***************************************************************************)
\* the time the clock runs to, the step of arrival times, the events fired
MaxNow == 3000
Step == 500
MaxChanges == 3

\* setTimeout(..., 1000)
DEBOUNCE_MS == 1000

NoTimer == 0
TimerDue == debounced # NoTimer /\ debounced <= now

Changed(at, uri, heard) == [at |-> at, uri |-> uri, heard |-> heard]

\* a listener that starts its timer only when none is pending
fileChangedEmitter_event_noRestart(uri) ==
  /\ Len(fileEvents) < MaxChanges
  /\ ~TimerDue
  /\ fileEvents' = Append(fileEvents, Changed(now, uri, listener))
  /\ IF listener
     THEN /\ queuedFiles' = Append(queuedFiles, uri)
          /\ debounced' = IF debounced # NoTimer THEN debounced ELSE now + DEBOUNCE_MS
     ELSE UNCHANGED <<queuedFiles, debounced>>
  /\ UNCHANGED <<listener, cancelRequested, started>>

\* fileChangedEmitter.fire(uri): the listener of the request, while it is
\* registered, clears the timer, queues the file and starts the timer anew
fileChangedEmitter_event(uri) ==
  /\ Len(fileEvents) < MaxChanges
  /\ ~TimerDue
  /\ fileEvents' = Append(fileEvents, Changed(now, uri, listener))
  /\ IF listener
     THEN /\ queuedFiles' = Append(queuedFiles, uri)
          /\ debounced' = now + DEBOUNCE_MS
     ELSE UNCHANGED <<queuedFiles, debounced>>
  /\ UNCHANGED <<listener, cancelRequested, started>>

\* the callback of setTimeout: the items of the queued files, the queue
\* cleared, doTestRun called with a request for the items
debouncedFires ==
  /\ TimerDue
  /\ started' = Append(started, [at |-> now, items |-> queuedFiles,
                                 upto |-> Len(fileEvents)])
  /\ queuedFiles' = << >>
  /\ debounced' = NoTimer
  /\ UNCHANGED <<listener, cancelRequested, fileEvents>>

\* cancellationToken.onCancellationRequested
continuous_onCancellationRequested ==
  /\ ~cancelRequested
  /\ ~TimerDue
  /\ cancelRequested' = TRUE
  /\ debounced' = NoTimer
  /\ listener' = FALSE
  /\ UNCHANGED <<queuedFiles, fileEvents, started>>

\* time passes, up to the next arrival time or to the time the timer is due
elapse ==
  /\ now < MaxNow
  /\ ~TimerDue
  /\ now' = IF debounced # NoTimer /\ debounced < now + Step THEN debounced
            ELSE now + Step
  /\ UNCHANGED contVars

\* the handler was called with a continuous request and has registered its
\* listener
InitContinuous ==
  /\ TreeIdle /\ ScanIdle /\ RunIdle /\ DiscIdle
  /\ PendIdle /\ CtrlIdle /\ DbgIdle
  /\ queuedFiles = << >>
  /\ debounced = NoTimer
  /\ listener = TRUE
  /\ cancelRequested = FALSE
  /\ fileEvents = << >>
  /\ started = << >>

ContinuousNext ==
  \/ /\ \/ \E uri \in Files : fileChangedEmitter_event(uri)
        \/ debouncedFires
        \/ continuous_onCancellationRequested
     /\ UNCHANGED <<treeVars, scanVars, runVars, discVars, pendVars, ctrlVars, dbgVars>>
  \/ /\ elapse
     /\ UNCHANGED <<treeVars, scanVars, runVars, pendVars, ctrlVars, dbgVars,
                    content, discPc, backlog, spawned, wpc, ops, nextOp, fsEvents,
                    handed, totalProcessedTime, thPc, due>>

SpecContinuous == InitContinuous /\ [][ContinuousNext]_vars

TreeInit == TreeIdle /\ ScanIdle /\ RunIdle /\ ExtIdle /\ DiscIdle

\* updateTestsInFile(root, file, ...) once its content read has returned src
updateTestsInFile(file, src) ==
  /\ generation < MaxGen
  /\ Cardinality({k \in 1..Len(log) : log[k].op = "update"}) < MaxPasses
  /\ LET r == discoverPass(nodes, src, file, generation)
     IN /\ nodes' = r.nodes
        /\ changes' = r.changes
  /\ generation' = generation + 1
  /\ before' = nodes
  /\ log' = Append(log, [op |-> "update", file |-> file, src |-> src,
                         generation |-> generation])
  /\ UNCHANGED <<call, notTree>>

\* removeTestsForFile(root, file, ...)
removeTestsForFile(file) ==
  /\ generation < MaxGen
  /\ LET r == prune(nodes, Root, file, removeGeneration(generation), {})
     IN /\ nodes' = r.nodes
        /\ changes' = r.changes
  /\ generation' = generation + 1
  /\ before' = nodes
  /\ log' = Append(log, [op |-> "remove", file |-> file, src |-> << >>,
                         generation |-> generation])
  /\ UNCHANGED <<call, notTree>>

TreeNext ==
  \/ \E file \in Files, src \in Sources : updateTestsInFile(file, src)
  \/ \E file \in Files : removeTestsForFile(file)

SpecTree == TreeInit /\ [][TreeNext]_vars

(***************************************************************************)
(* A first pass over a file with nested suites, then one more pass or a    *)
(* delete-prune: the trees in which pruning empties a suite inside a       *)
(* suite.                                                                  *)
(***************************************************************************)
\* the texts of the first pass: one suite around a text of MaxCalls calls
DeepSources ==
  {<<o>> \o inner \o <<End>> : o \in Calls({"suite"}), inner \in SrcWith(Opens, MaxCalls)}

\* updateTestsInFile: the first pass reads one of these texts in F, the
\* second any text of Sources in either file
deepPass(file, src) ==
  /\ IF log = << >> THEN file = "F" /\ src \in DeepSources
     ELSE Len(log) = 1 /\ src \in Sources
  /\ updateTestsInFile(file, src)

DeepNext ==
  \/ \E file \in Files, src \in Sources \cup DeepSources : deepPass(file, src)
  \/ \E file \in Files : Len(log) = 1 /\ removeTestsForFile(file)

SpecDeep == TreeInit /\ [][DeepNext]_vars

(***************************************************************************)
(* A single extraction into an empty root, as in the test 'extracts with   *)
(* ts': extractTests is called directly, without prune.                    *)
(***************************************************************************)
extractsWithTs(src) ==
  /\ log = << >>
  /\ LET r == extractTests(nodes, src, "F", 0)
     IN /\ nodes' = r.nodes
        /\ changes' = r.changedTests
  /\ before' = nodes
  /\ log' = <<[op |-> "extract", file |-> "F", src |-> src, generation |-> 0]>>
  /\ UNCHANGED <<generation, call, notTree>>

ExtractNext == \E src \in ExtractSources : extractsWithTs(src)

SpecExtract == TreeInit /\ [][ExtractNext]_vars

(***************************************************************************)
(* addChild driven directly: any candidate handed to the root or to an     *)
(* attached suite.                                                         *)
(***************************************************************************)
Ranges == {<<1, 2>>, <<3, 4>>}
Candidates ==
  {TestCase(n, [uri |-> "F", range |-> r], g) : n \in Names, r \in Ranges, g \in 0..1}
    \cup {TestSuite(n, [uri |-> "F", range |-> r]) : n \in Names, r \in Ranges}

addChildCall(p, item) ==
  /\ Len(nodes) <= MaxNodes
  /\ LET found == childrenByName(nodes, p, item.label)
         r == addChild(nodes, p, item)
     IN /\ nodes' = r.nodes
        /\ call' = [parent |-> p, item |-> item,
                    existing |-> IF found = {} THEN NoNode ELSE CHOOSE c \in found : TRUE,
                    node |-> r.node, changed |-> r.changed]
  /\ before' = nodes
  /\ UNCHANGED <<generation, changes, log, notTree>>

rootAddChild == \E item \in Candidates : addChildCall(Root, item)

suiteAddChild ==
  \E p \in Attached(nodes), item \in Candidates :
     nodes[p].kind = "suite" /\ addChildCall(p, item)

AddNext == rootAddChild \/ suiteAddChild

SpecAdd == TreeInit /\ [][AddNext]_vars

\* a process that reports only starts, failures and the end; every turn the
\* event loop owes is eventually run
ResolutionNext ==
  \/ scanBegin
  \/ \E title \in TestTitles : onTestStart(title)
  \/ \E id \in EventTitles : onFail(id)
  \/ onEnd
  \/ \E b \in exitBlockers, location \in {"mapped", "undefined"} : settle(b, location)
  \/ \E ok \in BOOLEAN : showMostRecentOutput(ok)

InitScan == TreeIdle /\ ScanInit /\ RunIdle /\ ExtIdle /\ DiscIdle

\* a run whose pending map may hold a test named like a hook, and a process
\* that reports starts, passes, failures and the end
NamedTitles == {"a aa", HookNamedTest}
InitNamed ==
  /\ TreeIdle /\ RunIdle /\ ExtIdle /\ DiscIdle
  /\ scanPc = "start"
  /\ listening = FALSE
  /\ tests \in UNION {Perms(S) : S \in SUBSET NamedTitles}
  /\ skippedTests = tests
  /\ lastTest = NoTest
  /\ currentTest = NoTest
  /\ ranAnyTest = FALSE
  /\ exitBlockers = {}
  /\ awaited = {}
  /\ nextBlocker = 1
  /\ sink = << >>
  /\ cancelled = FALSE
  /\ disposed = FALSE
  /\ nEvents = 0
  /\ events = << >>
  /\ fsHangs = FALSE
  /\ snapshot = tests

NamedNext ==
  \/ scanBegin
  \/ \E title \in NamedTitles : onTestStart(title)
  \/ \E title \in NamedTitles : onPass(title)
  \/ \E id \in NamedTitles : onFail(id)
  \/ onEnd
  \/ \E b \in exitBlockers, location \in {"mapped", "undefined"} : settle(b, location)
  \/ \E ok \in BOOLEAN : showMostRecentOutput(ok)

SpecNamed == InitNamed /\ [][NamedNext]_vars

\* the same run with every way the awaited promise and Promise.all end:
\* the end event, a runner error, cancellation, a promise that rejects
EndNext ==
  \/ NamedNext
  \/ onCancellationRequested
  \/ onRunnerError
  \/ \E b \in exitBlockers : rejects(b)

SpecEnd == InitNamed /\ [][EndNext]_vars

SpecScan == InitScan /\ [][ScanNext]_vars

SpecResolution ==
  /\ InitScan
  /\ [][ResolutionNext]_vars
  /\ WF_vars(scanBegin)
  /\ WF_vars(\E b \in exitBlockers, location \in {"mapped", "undefined"} : settle(b, location))
  /\ WF_vars(\E ok \in BOOLEAN : showMostRecentOutput(ok))

SpecRun == TreeInit /\ [][RunNext]_vars

InitDisc == TreeIdle /\ ScanIdle /\ RunIdle /\ ExtIdle /\ DiscInit

SpecDisc == InitDisc /\ [][DiscNext]_vars

SpecThrottle == TreeInit /\ [][ThrottleNext]_vars

\* the steps the event loop takes by itself: every continuation that is
\* ready runs, and a file read that was started returns
BatchStep ==
  \/ findFiles
  \/ pushWorker
  \/ discovered
  \/ \E op \in ops : readFile(op)
  \/ \E op \in ops : afterRead(op)
  \/ \E i \in 1..Workers : workerResume(i)

\* the initial loop over files that are all on disk when findFiles runs; a
\* file deleted before its turn is the one whose read fails
InitBatch ==
  /\ TreeIdle /\ ScanIdle /\ RunIdle /\ ExtIdle
  /\ content \in [Files -> DiscSources]
  /\ discPc = "finding"
  /\ backlog = << >>
  /\ spawned = 0
  /\ wpc = [i \in 1..Workers |-> "none"]
  /\ ops = {}
  /\ nextOp = 1
  /\ fsEvents = 0
  /\ handed = [f \in Files |-> "no"]
  /\ ClockIdle

BatchNext ==
  \/ \E file \in Files : onDidDelete(file)
  \/ BatchStep

SpecBatch == InitBatch /\ [][BatchNext]_vars /\ WF_vars(BatchStep)

(***************************************************************************)
(* What a source text declares, read off the text itself: the label path   *)
(* and kind of every test/suite/flakySuite call that is not inside the     *)
(* body of a test call; other calls are transparent.                       *)
(***************************************************************************)
RECURSIVE DeclWalk(_, _, _, _, _)
\* path: labels of the open suites; frames: TRUE for a call that extended
\* path; inTest: open calls at or below an enclosing test call
DeclWalk(src, i, path, frames, inTest) ==
  IF i > Len(src) THEN {}
  ELSE IF src[i].fn = "end"
  THEN IF inTest > 0 THEN DeclWalk(src, i + 1, path, frames, inTest - 1)
       ELSE DeclWalk(src, i + 1,
                     IF frames[Len(frames)] THEN Front(path) ELSE path,
                     Front(frames), 0)
  ELSE IF inTest > 0 THEN DeclWalk(src, i + 1, path, frames, inTest + 1)
  ELSE IF src[i].fn = "test"
  THEN {[path |-> Append(path, src[i].name), kind |-> "case"]}
         \cup DeclWalk(src, i + 1, path, frames, 1)
  ELSE IF src[i].fn \in {"suite", "flakySuite"}
  THEN {[path |-> Append(path, src[i].name), kind |-> "suite"]}
         \cup DeclWalk(src, i + 1, Append(path, src[i].name), Append(frames, TRUE), 0)
  ELSE DeclWalk(src, i + 1, path, Append(frames, FALSE), 0)

Declared(src) == DeclWalk(src, 1, << >>, << >>, 0)

IsPrefix(p, q) == Len(p) < Len(q) /\ SubSeq(q, 1, Len(p)) = p

\* the declared cases, and the declared suites that hold a case
DeclaredTests(src) ==
  {d \in Declared(src) :
     \/ d.kind = "case"
     \/ \E e \in Declared(src) : e.kind = "case" /\ IsPrefix(d.path, e.path)}

\* the attached nodes with the fields a pass may change (generation aside)
View(ns) == {[id |-> n, kind |-> ns[n].kind, label |-> ns[n].label,
              location |-> ns[n].location, children |-> ns[n].children]
               : n \in Reach(ns, Root)}

LastOp == log[Len(log)]

(***************************************************************************)
(* C1.  Per run and per test of the pending map, at most one terminal      *)
(* outcome (passed, failed or skipped) is emitted to the TestRun.          *)
(***************************************************************************)
Terminal == {"passed", "failed", "skipped"}
OutcomesOf(t) == {i \in 1..Len(sink) : sink[i].call \in Terminal /\ sink[i].test = t}

C1_AtMostOneTerminal == \A t \in TestTitles : Cardinality(OutcomesOf(t)) <= 1

(***************************************************************************)
(* C2.  Stale pruning: after discovering source A for a file into an      *)
(* empty tree and rediscovering the same file from source B, every Case    *)
(* and Suite declared only in A is absent, and every one declared in both  *)
(* is still present as the same node object.                               *)
(***************************************************************************)
TwoPasses ==
  /\ Len(log) = 2
  /\ log[1].op = "update" /\ log[2].op = "update"
  /\ log[1].file = log[2].file

C2_StalePruning ==
  TwoPasses =>
    LET A == DeclaredTests(log[1].src)
        B == DeclaredTests(log[2].src)
    IN /\ \A d \in A \ B : NodeAt(nodes, d) = NoNode
       /\ \A d \in A \cap B : /\ NodeAt(nodes, d) # NoNode
                              /\ NodeAt(nodes, d) = NodeAt(before, d)

(***************************************************************************)
(* C3.  Idempotent re-discovery: a second pass in a row on the same file   *)
(* with unchanged text yields an empty change set and leaves the tree      *)
(* unchanged.                                                              *)
(***************************************************************************)
SamePassTwice ==
  /\ Len(log) >= 2
  /\ LastOp.op = "update" /\ log[Len(log) - 1].op = "update"
  /\ LastOp.file = log[Len(log) - 1].file
  /\ LastOp.src = log[Len(log) - 1].src

C3_Idempotent == SamePassTwice => changes = {} /\ View(nodes) = View(before)

(***************************************************************************)
(* C4.  Structural fidelity: the tree produced by extraction into an empty *)
(* root has exactly the labels and nesting of the recognised calls of the  *)
(* source, whatever non-matching expressions wrap them.                    *)
(***************************************************************************)
C4_StructuralFidelity ==
  (log # << >> /\ log[1].op = "extract") => Shape(nodes) = Declared(log[1].src)

(***************************************************************************)
(* C5.  When addChild receives a candidate whose label equals that of an   *)
(* existing sibling of the other kind, the existing node, and for a Suite  *)
(* its subtree, is not removed from the tree.                              *)
(***************************************************************************)
KindClash ==
  /\ call.parent # NoNode
  /\ call.existing # NoNode
  /\ before[call.existing].kind # call.item.kind

C5_NoSilentDrop == KindClash => Reach(before, call.existing) \subseteq Attached(nodes)

(***************************************************************************)
(* C6.  Rename as location change: addChild with a candidate of the same   *)
(* label and kind as an existing sibling returns the existing node, with   *)
(* changed = TRUE exactly when the locations differ, leaves the existing   *)
(* node at the candidate's location and adds no child.                     *)
(***************************************************************************)
SameKindMerge ==
  /\ call.parent # NoNode
  /\ call.existing # NoNode
  /\ before[call.existing].kind = call.item.kind

C6_RenameAsLocationChange ==
  SameKindMerge =>
    /\ call.node = call.existing
    /\ call.changed = (before[call.existing].location # call.item.location)
    /\ nodes[call.existing].location = call.item.location
    /\ nodes[call.parent].children = before[call.parent].children
    /\ Len(nodes) = Len(before)

C6_Witness == SameKindMerge /\ call.changed

(***************************************************************************)
(* C7.  After removeTestsForFile for a file, no Case located in that file  *)
(* is left in the tree, no Suite is left without children, and the Cases   *)
(* located in other files are still there.                                 *)
(***************************************************************************)
Removed == log # << >> /\ LastOp.op = "remove"

CasesIn(ns, files) ==
  {n \in Attached(ns) : ns[n].kind = "case" /\ ns[n].location.uri \in files}

C7_DeleteEvictsFile ==
  Removed =>
    /\ CasesIn(nodes, {LastOp.file}) = {}
    /\ \A n \in Attached(nodes) : nodes[n].kind = "suite" => nodes[n].children # {}
    /\ \A n \in CasesIn(before, Files \ {LastOp.file}) :
          n \in Attached(nodes) /\ nodes[n] = before[n]

C7_Witness ==
  /\ Removed
  /\ CasesIn(before, {LastOp.file}) # {}
  /\ CasesIn(before, Files \ {LastOp.file}) # {}
  /\ \E n \in Attached(before) : before[n].kind = "suite" /\ n \notin Attached(nodes)

(***************************************************************************)
(* C8.  File ownership: a discovery pass or delete-prune for one file      *)
(* never removes, replaces or changes the location or generation of a     *)
(* Case or Suite discovered from another file.                             *)
(***************************************************************************)
C8_FileOwnership ==
  (log # << >> /\ LastOp.op \in {"update", "remove"}) =>
    \A n \in Attached(before) :
       before[n].location.uri # LastOp.file =>
         /\ n \in Attached(nodes)
         /\ nodes[n].location = before[n].location
         /\ nodes[n].generation = before[n].generation

(***************************************************************************)
(* C9.  All discovery for one file is serialized: no discovery operation   *)
(* for a file starts while an earlier one for the same file is between the *)
(* start of its content read and the end of its prune.                     *)
(***************************************************************************)
C9_SerializedPerFile ==
  \A f \in Files : Cardinality({op \in ops : op.file = f}) <= 1

(***************************************************************************)
(* C10.  Run serialization: at most one run is attached to a live test     *)
(* process; the process of a run is not spawned and its output is not      *)
(* consumed before the scan of every run queued earlier has finished.      *)
(***************************************************************************)
Started(r) == runPc[r] \in {"spawning", "scanning", "finished", "rejected"}

EndLine == Line("tuple", "end", "")
TerminalLines(t) == {Line("tuple", "pass", t), Line("tuple", "fail", t)}
OneTerminalEach ==
  /\ Len(events) = Len(snapshot) + 1
  /\ events[Len(events)] = EndLine
  /\ \A t \in Range(snapshot) :
        Cardinality({k \in 1..Len(snapshot) : events[k] \in TerminalLines(t)}) = 1
LastOutcome(t) ==
  IF OutcomesOf(t) = {} THEN "none"
  ELSE sink[CHOOSE i \in OutcomesOf(t) : \A j \in OutcomesOf(t) : j <= i].call

C11_CorrelationCompleteness ==
  (scanPc = "done" /\ OneTerminalEach) =>
     /\ tests = << >>
     /\ \A t \in Range(snapshot) : LastOutcome(t) \in {"passed", "failed"}

(***************************************************************************)
(* C12.  Hook-failure attribution: when a fail event whose title contains  *)
(* the hook marker and matches no pending case arrives in a run that has   *)
(* tests, a failure is recorded for a test (it is not dropped), and for    *)
(* the most recently completed or started test when there is one.          *)
(***************************************************************************)
RecentEvents ==
  {k \in 1..Len(events) : /\ events[k].name \in {"testStart", "pass", "fail"}
                          /\ events[k].title \in Range(snapshot)}
RecentTest ==
  IF RecentEvents = {} THEN NoTest
  ELSE events[CHOOSE k \in RecentEvents : \A j \in RecentEvents : j <= k].title
HookFailArrives ==
  /\ snapshot # << >>
  /\ events' = Append(events, Line("tuple", "fail", HookTitle))

C12_HookFailureAttributed ==
  [][HookFailArrives =>
       \E b \in exitBlockers' \ exitBlockers :
          /\ b.kind = "fail"
          /\ RecentTest \in {NoTest, b.test}]_vars

(***************************************************************************)
(* C13.  When the stream ended with an end event and the call returned,    *)
(* every test of the pending snapshot that received neither a pass nor a   *)
(* fail event (and no outcome) has been marked Skipped, whether or not a   *)
(* testStart was seen for it.                                              *)
(***************************************************************************)
Untouched(t) ==
  /\ \A k \in 1..Len(events) : events[k] \notin TerminalLines(t)
  /\ \A i \in OutcomesOf(t) : sink[i].call = "skipped"

C13_UnfinishedAreSkipped ==
  (scanPc = "done" /\ events # << >> /\ events[Len(events)] = EndLine) =>
     \A t \in Range(snapshot) :
        Untouched(t) => \E i \in OutcomesOf(t) : sink[i].call = "skipped"

(***************************************************************************)
(* C14.  Cancellation: from the moment the cancellation token is           *)
(* signalled, no outcome (passed, failed, skipped) and no output is        *)
(* emitted to the TestRun; only end() may follow.                          *)
(***************************************************************************)
NewCalls == {sink'[i] : i \in (Len(sink) + 1)..Len(sink')}

C14_SilentAfterCancellation ==
  [][cancelled' => \A c \in NewCalls : c.call = "end"]_vars

(***************************************************************************)
(* C15.  After end() has been called on the TestRun, no further call       *)
(* (outcome or appendOutput) is made on it, whatever the process delivers  *)
(* afterwards.                                                             *)
(***************************************************************************)
Ended == \E i \in 1..Len(sink) : sink[i].call = "end"

C15_NothingAfterEnd == [][Ended => sink' = sink]_vars

(***************************************************************************)
(* C16.  After an end event, end() is not called on the TestRun before     *)
(* every location resolution started before that end event has settled     *)
(* (and so has emitted its Failed outcome).                                *)
(***************************************************************************)
EndEvents == {k \in 1..Len(events) : events[k] = EndLine}
\* started before the first end event
StartedBeforeEnd(b) == EndEvents # {} /\ \A k \in EndEvents : b.at < k

C16_EndWaitsForResolutions ==
  [][(~Ended /\ Ended') =>
       \A b \in exitBlockers' : b.kind = "fail" => ~StartedBeforeEnd(b)']_vars

(***************************************************************************)
(* C17.  When the process exits or reports an error before an end event    *)
(* was seen, the handler appends the error text to the TestRun's output,   *)
(* resolves the promise the call is waiting on, and marks no test Passed   *)
(* or Failed; with no location resolution in flight the call goes on to    *)
(* its end without waiting for further events.                             *)
(***************************************************************************)
RunnerErrorArrives ==
  /\ EndEvents = {}
  /\ events' = Append(events, RunnerError)

C17_RunnerErrorResolves ==
  [][RunnerErrorArrives =>
       /\ Len(sink') > Len(sink)
       /\ sink'[Len(sink) + 1] = Emit("output", currentTest)
       /\ \A c \in NewCalls : c.call \notin {"passed", "failed"}
       /\ scanPc' # "scanning"
       /\ exitBlockers = {} => scanPc' \in {"showing", "done"}]_vars

C17_Witness ==
  /\ events # << >>
  /\ events[Len(events)] = RunnerError
  /\ EndEvents = {}
  /\ tests # << >>
  /\ scanPc = "done"
  /\ \E i \in 1..Len(sink) : sink[i].call = "skipped"

(***************************************************************************)
(* C18.  Every fail event matched to a test during the run eventually      *)
(* yields its Failed outcome, and the outcome carries a location: the      *)
(* source-mapped one when the resolution succeeds, the test's own first    *)
(* line when it fails or does not complete.                                *)
(***************************************************************************)
FailurePending == \E b \in exitBlockers : b.kind = "fail"
FailedHasLocation ==
  \A i \in 1..Len(sink) :
     sink[i].call = "failed" => sink[i].location \in {"mapped", "testFirstLine"}

C18_FailedEventually ==
  /\ []FailedHasLocation
  /\ (FailurePending /\ ~Ended) ~> ~FailurePending

(***************************************************************************)
(* C19.  Every line read from the process is either dispatched as one of   *)
(* the enumerated events (start, testStart, pass, fail, end) or forwarded  *)
(* to the TestRun as output (at once, or once the location of a logged     *)
(* line is resolved); a line that is not an enumerated [name, payload]     *)
(* tuple is never discarded.                                               *)
(***************************************************************************)
Dispatched(l) == l.shape = "tuple" /\ l.name \in MochaEvent
Forwarded ==
  \/ \E c \in NewCalls : c.call = "output"
  \/ \E b \in exitBlockers' \ exitBlockers : b.kind = "output"

C19_NoLineDiscarded ==
  [][\A l \in Lines : (events' = Append(events, l)) => (Dispatched(l) \/ Forwarded)]_vars

(***************************************************************************)
(* C20.  Correlation key: the fully qualified name of every Case, at any   *)
(* nesting depth, is the names of its ancestor suites, outermost first,    *)
(* followed by its own name, joined by single spaces (the full title the   *)
(* runner reports); the id carries it behind the provider's prefix.        *)
(***************************************************************************)
RECURSIVE JoinBySpace(_)
JoinBySpace(path) ==
  IF Len(path) = 1 THEN path[1] ELSE path[1] \o " " \o JoinBySpace(Tail(path))
ReportedTitle(n) == JoinBySpace(PathOf(nodes, n, Root))
Cases == {n \in Attached(nodes) : nodes[n].kind = "case"}

C20_CorrelationKey ==
  \A n \in Cases :
     /\ fullTitle(nodes, n) = ReportedTitle(n)
     /\ TestItem_id(nodes, n) = idPrefix \o ReportedTitle(n)
     /\ fullLabel(nodes, n) = ReportedTitle(n)

(***************************************************************************)
(* C21.  A discovery pass whose read of the file failed removes no test    *)
(* node of that file: every node attached before the pass is still         *)
(* attached after it.                                                      *)
(***************************************************************************)
ReadFailed == log # << >> /\ LastOp.op = "updateFromDisk" /\ LastOp.src = Absent

C21_ReadFailureRetainsTests ==
  ReadFailed => Attached(before) \subseteq Attached(nodes)

\* C22: a failure while discovering one file of the initial batch does not
\* abort the batch: the initial-discovery promise still resolves, and by then
\* every file that findFiles returned has been handed to updateTestsInFile
BatchFailure == \E f \in Files : handed[f] = "failed"
BatchDone ==
  /\ discPc = "discovered"
  /\ \A f \in Files : handed[f] \in {"no", "passed", "failed"}
C22_FailureIsolated == [](BatchFailure => <>BatchDone)
C22_Witness ==
  /\ BatchFailure
  /\ BatchDone
  /\ \E f \in Files : handed[f] = "passed"

(***************************************************************************)
(* C23.  The change set a discovery pass or a delete-prune leaves holds    *)
(* only nodes that are in the tree when it ends: a node removed or         *)
(* replaced during the pass is not left in the change set.                 *)
(***************************************************************************)
C23_ChangesAttached == log # << >> => changes \subseteq Reach(nodes, Root)

(***************************************************************************)
(* C24.  After a discovery pass or a delete-prune, for every Case or Suite *)
(* it removed from the tree, the nearest ancestor of the removed node that *)
(* is still in the tree is in the change set.                              *)
(***************************************************************************)
RemovedNodes == Attached(before) \ Attached(nodes)
RECURSIVE NearestKept(_)
NearestKept(n) ==
  LET p == CHOOSE q \in Reach(before, Root) : n \in before[q].children
  IN IF p \in Reach(nodes, Root) THEN p ELSE NearestKept(p)
C24_ParentOfRemovedChanged ==
  log # << >> => \A n \in RemovedNodes : NearestKept(n) \in changes
C24_Witness ==
  /\ log # << >>
  /\ \E n \in RemovedNodes : before[n].kind = "case" /\ NearestKept(n) # Root
  /\ \E n \in RemovedNodes : before[n].kind = "suite" /\ NearestKept(n) # Root

(***************************************************************************)
(* C25.  In every reachable state the generation of each Case in the tree  *)
(* is at most the generation of the most recent discovery pass over the    *)
(* file the Case is located in, and less than the global generation        *)
(* counter.                                                                *)
(***************************************************************************)
PassesOn(file) == {k \in 1..Len(log) : log[k].op = "update" /\ log[k].file = file}
LastPassOn(file) == CHOOSE k \in PassesOn(file) : \A j \in PassesOn(file) : j <= k
CaseNodes == {n \in Attached(nodes) : nodes[n].kind = "case"}
C25_GenerationBounded ==
  \A n \in CaseNodes :
    /\ nodes[n].generation < generation
    /\ PassesOn(nodes[n].location.uri) # {}
    /\ nodes[n].generation <= log[LastPassOn(nodes[n].location.uri)].generation
\* a case that an earlier pass stamped is in the tree after a later pass over
\* another file and after a delete-prune
C25_Witness ==
  /\ Len(log) = 3
  /\ \E n \in CaseNodes : nodes[n].generation = 0
  /\ \E n \in CaseNodes : nodes[n].generation > 0 /\ n \in Attached(before)
                            /\ before[n].location.uri # nodes[n].location.uri

(***************************************************************************)
(* C26.  After every completed discovery pass or delete-prune no Suite in  *)
(* the tree has zero children: a Suite emptied by pruning is removed, and  *)
(* so is each ancestor Suite that thereby becomes empty.                   *)
(***************************************************************************)
SuiteNodes(ns) == {n \in Attached(ns) : ns[n].kind = "suite"}
C26_NoEmptySuite == \A n \in SuiteNodes(nodes) : nodes[n].children # {}
\* a suite inside a suite lost its last child, and both suites are gone
C26_Witness ==
  /\ Len(log) = 2
  /\ LastOp.op = "remove"
  /\ \E n \in SuiteNodes(before) \ SuiteNodes(nodes) :
       \E m \in before[n].children :
         /\ before[m].kind = "suite"
         /\ before[m].children # {}
         /\ m \notin Attached(nodes)

(***************************************************************************)
(* C27.  The initial backlog is processed by four concurrent workers: a    *)
(* file waits in the backlog only while all four workers exist, each file  *)
(* is in the hands of at most one worker, and at most four files are in    *)
(* discovery at once.                                                      *)
(***************************************************************************)
WorkerOps == {op \in ops : op.by # 0}
C27_FourWorkers ==
  /\ Cardinality(WorkerOps) <= Workers
  /\ \A op1, op2 \in WorkerOps : op1.file = op2.file => op1 = op2
  /\ (backlog # << >> /\ \E i \in 1..Workers : wpc[i] \in {"busy", "throttle"})
       => spawned = Workers

(***************************************************************************)
(* C28.  Throttle: when the time spent in passes exceeds 50% of the time   *)
(* elapsed since the batch started, the delay the worker inserts is long   *)
(* enough that at the end of the delay the time spent in passes is at most *)
(* 50% of the elapsed time.                                                *)
(***************************************************************************)
C28_DelayReachesTarget ==
  thPc = "resumed" => 100 * totalProcessedTime <= MAX_BLOCKING_TARGET_PERCENT * now

(***************************************************************************)
(* C29.  When the test process of a run cannot be launched (runner.run or  *)
(* runner.debug rejects), the error is written to the output of that run's *)
(* TestRun and end() is called on it, and no test is marked passed or      *)
(* failed.                                                                 *)
(***************************************************************************)
LaunchFailed(r) == runPc[r] = "rejected"
C29_LaunchFailureEndsRun ==
  \A r \in Runs :
    LaunchFailed(r) =>
      /\ "appendOutput" \in Range(task[r])
      /\ task[r][Len(task[r])] = "end"
      /\ Range(task[r]) \cap {"passed", "failed"} = {}

(***************************************************************************)
(* C30.  The run queue never becomes stuck: after a queued run failed      *)
(* (its launch rejected), no run enqueued afterwards loses its start, that *)
(* is, the callback that starts it is never discarded.                     *)
(***************************************************************************)
FailedBefore(r) ==
  \E i \in 1..(PositionOf(r) - 1) : runPc[chain[i]] = "rejected"
C30_QueueNeverStuck ==
  \A r \in Range(chain) : FailedBefore(r) => runPc[r] # "never"

(***************************************************************************)
(* C31.  After a pass event for title t matched a pending case, t is not   *)
(* in the pending map, and a later pass or fail event with the title t     *)
(* emits no further outcome for that case: no passed call is made and no   *)
(* failure is set going for it.                                            *)
(***************************************************************************)
PassedAlready(t) == Emit("passed", t) \in Range(sink)
SameTitleArrives(t) ==
  /\ Len(events') = Len(events) + 1
  /\ events'[Len(events')].shape = "tuple"
  /\ events'[Len(events')].name \in {"pass", "fail"}
  /\ events'[Len(events')].title = t
PassedCalls(out, t) == Cardinality({k \in 1..Len(out) : out[k] = Emit("passed", t)})
C31_DuplicateIgnored ==
  [][\A t \in TestTitles \cup NamedTitles :
       PassedAlready(t) =>
         /\ t \notin Range(tests)
         /\ SameTitleArrives(t) =>
              /\ PassedCalls(sink', t) = PassedCalls(sink, t)
              /\ \A b \in exitBlockers' \ exitBlockers : b.test # t]_vars

(***************************************************************************)
(* C32.  Every unstructured output line is appended for the test that was  *)
(* current, by the last testStart, when the line was received; so is a     *)
(* line whose `logged at` location is resolved asynchronously and arrives  *)
(* after a later testStart.                                                *)
(***************************************************************************)
\* the title is still in the pending map when event k is handled
PendingAt(k, t) ==
  /\ t \in Range(snapshot)
  /\ \A j \in 1..(k - 1) :
       ~(events[j].name \in {"pass", "fail"} /\ events[j].title = t)
StartsBefore(k) == {j \in 1..(k - 1) : events[j].name = "testStart"}
\* the current test when event k is received
CurrentAt(k) ==
  IF StartsBefore(k) = {} THEN NoTest
  ELSE LET j == CHOOSE i \in StartsBefore(k) : \A h \in StartsBefore(k) : h <= i
       IN IF PendingAt(j, events[j].title) THEN events[j].title ELSE NoTest
C32_LineAttribution ==
  [][/\ \A b \in exitBlockers \ exitBlockers' :
          b.kind = "output" => sink'[Len(sink) + 1] = Emit("output", CurrentAt(b.at))
     /\ (Len(events') = Len(events) + 1 /\ events'[Len(events')].shape = "text"
           /\ events'[Len(events')].name # "spdlog")
          => sink'[Len(sink) + 1] = Emit("output", CurrentAt(Len(events')))]_vars

(***************************************************************************)
(* C33.  A pending location resolution for a failed test does not block    *)
(* the stream: a pass or fail event for another test that is received      *)
(* while the resolution is pending is handled in the same step, the pass   *)
(* emitting Passed and the fail starting its own resolution, and the       *)
(* pending resolution is left pending.                                     *)
(***************************************************************************)
ResolutionPendingFor(t) == \E b \in exitBlockers : b.kind = "fail" /\ b.test # t
Arrives(name, t) ==
  /\ Len(events') = Len(events) + 1
  /\ events'[Len(events')] = Line("tuple", name, t)
C33_ResolutionDoesNotBlock ==
  [][\A t \in TestTitles :
       (ResolutionPendingFor(t) /\ t \in Range(tests)) =>
         /\ Arrives("pass", t) =>
              /\ sink'[Len(sink')] = Emit("passed", t)
              /\ exitBlockers' = exitBlockers
         /\ Arrives("fail", t) =>
              /\ exitBlockers \subseteq exitBlockers'
              /\ \E b \in exitBlockers' \ exitBlockers : b.kind = "fail" /\ b.test = t]_vars
\* Passed was emitted for one test while the failure of another still waits
\* for its location
C33_Witness ==
  /\ sink # << >>
  /\ sink[Len(sink)].call = "passed"
  /\ ResolutionPendingFor(sink[Len(sink)].test)
  /\ \E b \in exitBlockers : b.kind = "fail" /\ b.at < Len(events)

(***************************************************************************)
(* C34.  Correlation miss: a pass event, or a fail event without the hook  *)
(* marker, whose title is not in the pending map emits no outcome for any  *)
(* test (only the line of output), leaves the pending map unchanged and    *)
(* does not end the scan.                                                  *)
(***************************************************************************)
Miss(t) == t \notin Range(tests) /\ ~includesHookFor(t)
C34_MissIsIgnored ==
  [][\A t \in EventTitles :
       (Miss(t) /\ (Arrives("pass", t) \/ Arrives("fail", t))) =>
         /\ SubSeq(sink', 1, Len(sink)) = sink
         /\ \A k \in (Len(sink) + 1)..Len(sink') : sink'[k].call = "output"
         /\ tests' = tests
         /\ exitBlockers' = exitBlockers
         /\ scanPc' = scanPc]_vars
\* a miss was handled while tests were pending and one had passed
C34_Witness ==
  /\ events # << >>
  /\ events[Len(events)].name \in {"pass", "fail"}
  /\ events[Len(events)].title = OtherTitle
  /\ scanPc = "scanning"
  /\ tests # << >>
  /\ lastTest # NoTest

(***************************************************************************)
(* C35.  Eventual consistency of a file's subtree: once every discovery    *)
(* operation on a file (initial worker, created and changed events) has    *)
(* completed, the cases located in the file are exactly the cases declared *)
(* in the content written last, whatever the order in which the reads of   *)
(* the overlapping operations completed.  Stated for a file that is on     *)
(* disk while no other file is on disk or holds a case of the tree.        *)
(***************************************************************************)
Quiescent == ops = {} /\ discPc = "discovered"

OnlyFile(f) ==
  /\ content[f] # Absent
  /\ \A g \in Files \ {f} : content[g] = Absent /\ CasesIn(nodes, {g}) = {}

CasePaths(ns, f) == {PathOf(ns, n, Root) : n \in CasesIn(ns, {f})}

DeclaredCasePaths(src) == {d.path : d \in {e \in Declared(src) : e.kind = "case"}}

C35_EventuallyConsistent ==
  \A f \in Files :
     (Quiescent /\ OnlyFile(f)) => CasePaths(nodes, f) = DeclaredCasePaths(content[f])

(***************************************************************************)
(* C38.  scanTestOutput calls end() on the TestRun exactly once on every   *)
(* path: no end() before the function has returned, one end() once it has  *)
(* (after the end event, a runner error, cancellation before or during the *)
(* scan, or a rejected promise among the awaited ones), and never a second *)
(* one.                                                                    *)
(***************************************************************************)
EndCalls == Cardinality({i \in 1..Len(sink) : sink[i].call = "end"})

C38_EndExactlyOnce == EndCalls = (IF scanPc = "done" THEN 1 ELSE 0)

C38_Witness ==
  /\ scanPc = "done"
  /\ EndCalls = 1
  /\ Rejection \in Range(events)
  /\ awaited # {}
  /\ ranAnyTest
  /\ sink[Len(sink) - 1] = Emit("output", NoTest)

(***************************************************************************)
(* C36.  The pending map built for a run contains every Case reachable     *)
(* from the requested items: each such Case is a value of the map, also    *)
(* when Cases in different files or suites have the same full title.       *)
(***************************************************************************)
RequestedCases ==
  {n \in UNION {Reach(nodes, i) : i \in Range(include[Len(include)])} :
     nodes[n].kind = "case"}

MapValues == {titleMap[i].item : i \in 1..Len(titleMap)}

C36_EveryCaseIsPending == include # << >> => RequestedCases \subseteq MapValues

(***************************************************************************)
(* C37.  After a file-deleted watcher event for URI u, no test item for u  *)
(* remains in the controller's items, for every URI u for which            *)
(* getOrCreateFile registered an item.                                     *)
(***************************************************************************)
C37_DeletedFileHasNoItem ==
  (fsLog # << >> /\ fsLog[Len(fsLog)].ev = "delete") =>
     \A it \in items : it.uri # fsLog[Len(fsLog)].uri

(***************************************************************************)
(* C40.  Debug runs: once the test process has exited, the 'Attach to VS   *)
(* Code' debug session started for it is stopped, both when the session    *)
(* started before the exit and when it starts only after the exit, and no  *)
(* other debug session is stopped.                                         *)
(***************************************************************************)
C40_AttachSessionStopped ==
  /\ (exited /\ AttachSession \in active \cup stopped) => AttachSession \in stopped
  /\ stopped \subseteq {AttachSession}

(***************************************************************************)
(* C39.  Continuous runs: a burst of file-change events in which           *)
(* consecutive events are less than 1000 ms apart starts exactly one run,  *)
(* 1000 ms after the last event of the burst; that run includes every test *)
(* file changed in the burst, and the set of queued files is empty         *)
(* afterwards; after the request's cancellation no run is started by the   *)
(* timer.                                                                  *)
(***************************************************************************)
\* the events the listener heard between the run before run k and run k
BurstOf(k) ==
  {i \in 1..Len(fileEvents) :
     /\ fileEvents[i].heard
     /\ i <= started[k].upto
     /\ k > 1 => i > started[k - 1].upto}

\* the events heard since the last run
Unserved ==
  {i \in 1..Len(fileEvents) :
     /\ fileEvents[i].heard
     /\ started # << >> => i > started[Len(started)].upto}

LastOf(S) == CHOOSE i \in S : \A j \in S : j <= i
FirstOf(S) == CHOOSE i \in S : \A j \in S : i <= j

RunServesBurst(k) ==
  LET B == BurstOf(k)
  IN /\ B # {}
     /\ Range(started[k].items) = {fileEvents[i].uri : i \in B}
     /\ started[k].at = fileEvents[LastOf(B)].at + DEBOUNCE_MS
     /\ \A i \in B \ {LastOf(B)} :
           fileEvents[FirstOf({j \in B : j > i})].at - fileEvents[i].at < DEBOUNCE_MS
     /\ k > 1 => fileEvents[FirstOf(B)].at - fileEvents[LastOf(BurstOf(k - 1))].at
                   >= DEBOUNCE_MS

\* a burst that has not been served has its timer, due 1000 ms after its
\* last event and not overdue
BurstIsTimed ==
  IF Unserved = {} THEN debounced = NoTimer /\ queuedFiles = << >>
  ELSE /\ debounced = fileEvents[LastOf(Unserved)].at + DEBOUNCE_MS
       /\ now <= debounced
       /\ Range(queuedFiles) = {fileEvents[i].uri : i \in Unserved}

C39_OneRunPerBurst ==
  [][/\ \A k \in 1..Len(started') : RunServesBurst(k)'
     /\ ~cancelRequested' => BurstIsTimed'
     /\ started' # started => queuedFiles' = << >>
     /\ cancelRequested => started' = started
     /\ cancelRequested' => debounced' = NoTimer]_vars

C39_Witness ==
  /\ Len(started) = 1
  /\ Cardinality(Range(started[1].items)) = 2
  /\ fileEvents[1].at < fileEvents[2].at
  /\ Len(fileEvents) = 3
  /\ fileEvents[3].heard
  /\ cancelRequested
  /\ now >= fileEvents[3].at + DEBOUNCE_MS
====
